---------------------------- MODULE Spec2Model ----------------------------
(***************************************************************************)
(* A model of the glcs capture pipeline core.                              *)
(*                                                                         *)
(* GL capture (src/src/glc/capture/gl_capture.c) is modelled as a state    *)
(* machine: the component record, its flags word, the stream list, the     *)
(* downstream packet buffer and one program counter per thread.  The host  *)
(* render threads call gl_capture_frame(); the control thread calls the    *)
(* configuration setters, gl_capture_start() and gl_capture_stop().        *)
(***************************************************************************)
EXTENDS Integers, Sequences, FiniteSets, TLC

(***************************************************************************)
(* Bounds of the model.                                                    *)
(***************************************************************************)
NThreads == 2      \* host render threads calling gl_capture_frame()
NDrawables == 2    \* GLX drawables of a display
NDisplays == 1     \* X displays
MaxFrames == 4     \* frames captured per stream, one thread
MaxRaceFrames == 1 \* frames captured per stream, two threads
MaxIOFrames == 2   \* frames captured per stream on a busy buffer
MaxClock == 12     \* the clock stops after MaxClock * TICK_NS
MaxStart == 6      \* the first planned frame() call is at most at MaxStart * TICK_NS
MaxFpsFrames == 8  \* frames captured per stream at a set rate
MaxSubmits == 3    \* messages given to tracker_submit
MaxPasses == 2     \* passes of tracker_iterate_state between two submits
MaxScalePackets == 3 \* packets the scaler reads from its input
MaxInfoMessages == 3 \* messages the thread of the info sink reads
MaxInfoThreads == 2  \* threads info_process_start creates

(***************************************************************************)
(* Program constants.                                                      *)
(***************************************************************************)
EINTR == 4           \* what a packet call returns on a cancelled buffer
EAGAIN == 11
EBUSY == 16
EINVAL == 22
ENOTSUP == 95
EALREADY == 114
GL_FRONT == 1028
GL_BACK == 1029
GL_BGR == 32992
GL_BGRA == 32993
NSEC_PER_SEC == 1000000000
\* the clock of the model advances by ticks of 10 ms
TICK_NS == NSEC_PER_SEC \div 100

NULL == 0

\* the threads: the render threads and the control thread
FrameThreads == 1..NThreads
Threads == 0..NThreads
CTL == CHOOSE t \in Threads : t \notin FrameThreads

Drawables == 1..NDrawables
Dpy == NDisplays

\* the bits of gl_capture_s.flags
GL_CAPTURE_FLAGS ==
  {"TRY_PBO", "USE_PBO", "CAPTURING", "DRAW_INDICATOR", "CROP", "LOCK_FPS",
   "IGNORE_TIME"}

\* the bits of gl_capture_video_stream_s.flags
GLC_VIDEO_FLAGS == {"CAPTURING", "NEED_COLOR_UPDATE", "DWORD_ALIGNED"}

VARIABLES
  gl,                \* struct gl_capture_s, but its flags and locks
  flags,             \* gl_capture_s.flags
  capture_spinlock,  \* gl_capture_s.capture_spinlock: 0 or the holder + 1
  mutex,             \* gl_capture_s.mutex: 0 or the holder + 1
  video,             \* the stream list; video[id], the head is the last
  pc,                \* each thread's position
  loc,               \* each thread's locals
  call,              \* each thread's last completed public call
  clock,             \* glc_state_time()
  xgeom,             \* XGetGeometry() of each window
  xgamma,            \* XF86VidModeGetGamma()
  gl_ext,            \* whether GL_ARB_pixel_buffer_object is offered
  gl_map_ok,         \* whether glMapBuffer of a bound buffer succeeds
  ps,                \* the downstream packet buffer
  glc_state,         \* the GLC_STATE_CANCEL bit of the glc state
  shared_drawable,   \* whether the host draws one drawable from two threads
  sched,             \* the times of the frame() calls the host has planned
  tracker,           \* struct tracker_s, and the pass of tracker_iterate_state
  scale,             \* struct scale_private_s, its threads and both buffers
  info               \* struct info_s, its thread and the messages it has read

vars ==
  <<gl, flags, capture_spinlock, mutex, video, pc, loc, call, clock, xgeom,
    xgamma, gl_ext, gl_map_ok, ps, glc_state, shared_drawable, sched, tracker,
    scale, info>>

compVars == <<gl, flags, capture_spinlock, mutex, video>>
envVars == <<clock, xgeom, xgamma, gl_ext, gl_map_ok, ps, glc_state, shared_drawable, sched, tracker, scale, info>>

(***************************************************************************)
(* Arithmetic helpers.                                                     *)
(***************************************************************************)
RECURSIVE Gcd(_, _)
Gcd(a, b) == IF b = 0 THEN a ELSE Gcd(b, a % b)

\* now - last < period on glc_utime_t (unsigned 64 bit): when now < last
\* the difference wraps to at least 2^64 - last, above every period here.
u64_sub_lt(a, b, c) == a >= b /\ a - b < c

(***************************************************************************)
(* gl_capture_init                                                         *)
(***************************************************************************)
gl_capture_init ==
  [to |-> NULL,
   capture_buffer |-> GL_FRONT,
   fps_period |-> NSEC_PER_SEC \div 30,
   fps_rem |-> 1,
   fps_rem_period |-> 3,
   pack_alignment |-> 8,
   format |-> GL_BGRA,
   bpp |-> 4,
   crop_x |-> 0, crop_y |-> 0, crop_w |-> 0, crop_h |-> 0]

NoCall == [op |-> "none", arg |-> 0, ret |-> 0]

\* hard is the first error other than EBUSY that a packet or GL call of the
\* running frame() call has returned, or 0
NoLocals == [video |-> 0, drawable |-> 0, now |-> 0, ret |-> 0, hard |-> 0,
             tmp |-> {}, cur |-> 0, from |-> "none", op |-> "none", arg |-> 0]

\* the packet buffer: lock is 0, the writer thread + 1, or -1 for a writer
\* that is no thread of the model
ps_buffer_init == [lock |-> 0, full |-> FALSE, cancelled |-> FALSE,
                   msgs |-> <<>>]

\* tracker_init: no stream; no pass of tracker_iterate_state has run.
\* submitted and out are the messages given to tracker_submit and the
\* callback invocations of the last pass with their results; passes counts
\* the passes started since the last submit, prev and prev_ret are out and
\* ret of the pass before the last
tracker_init ==
  [video_streams |-> <<>>, audio_streams |-> <<>>,
   pc |-> "idle", cur |-> 0, ret |-> 0,
   submitted |-> <<>>, seen |-> 0, out |-> <<>>,
   passes |-> 0, prev |-> <<>>, prev_ret |-> 0]

\* the threads of the scaler (scale_init, line 76: util_cpus() of them) and
\* the ids of the video streams (glc_ctx_i) in its input
ScaleThreads == {1, 2}
ScaleCtxIds == {1, 2}

\* a thread of the scaler between two packets; reading, msg is the packet
\* it read, threadptr the ctx of scale_read_callback (line 117), swi and
\* shi the locals of scale_pic_msg, slot the place of its packet in the
\* output
scale_thread_idle ==
  [pc |-> "idle", msg |-> [type |-> "NONE"], threadptr |-> 0,
   swi |-> 0, shi |-> 0, slot |-> 0]

\* no glc_ctx_message_t of a stream was put in the input yet
NoFormat == [flags |-> {}, w |-> 0, h |-> 0]

\* scale_init, lines 64-79, for a glc->scale of s[1] / s[2]: no ctx.  open
\* is the holder of the mutex that keeps the packets in order, from and to
\* are the packets read from the input and written to the output, sent the
\* last format in the input of each stream, crashed whether the process
\* took a fatal signal
scale_init(s) ==
  [glc_scale |-> s, ctx |-> <<>>, open |-> 0,
   thread |-> [t \in ScaleThreads |-> scale_thread_idle],
   from |-> 0, to |-> <<>>,
   sent |-> [c \in ScaleCtxIds |-> NoFormat],
   crashed |-> FALSE]

\* info_init (info.c lines 108-126): calloc leaves running, the lists and the
\* time at 0; level is 1.  thread is the state of the thread of the sink
\* ("none", "reading", "closing" once it has read the close message, "done"
\* once the finish callback has returned), threads the number of threads
\* created so far, log the messages read, report the streams the finish
\* callback has reported, crashed whether the process took a fatal signal,
\* op and ret the last public call and what it returned
info_init ==
  [running |-> 0, time |-> 0, level |-> 1,
   video_list |-> <<>>, audio_list |-> <<>>,
   thread |-> "none", threads |-> 0, log |-> <<>>, report |-> <<>>,
   crashed |-> FALSE, op |-> "none", ret |-> 0]

Init ==
  /\ gl = gl_capture_init
  /\ flags = {}
  /\ capture_spinlock = 0
  /\ mutex = 0
  /\ video = <<>>
  /\ pc = [t \in Threads |-> "idle"]
  /\ loc = [t \in Threads |-> NoLocals]
  /\ call = [t \in Threads |-> NoCall]
  /\ clock \in {0, 4 * TICK_NS}
  /\ xgeom = [w \in Drawables |-> <<4, 2>>]
  /\ xgamma = <<10, 10, 10>>
  /\ gl_ext \in BOOLEAN
  /\ gl_map_ok = TRUE
  /\ ps = ps_buffer_init
  /\ glc_state = "RUN"
  /\ shared_drawable \in BOOLEAN
  /\ sched = <<>>
  /\ tracker = tracker_init
  /\ scale = scale_init(<<1, 1>>)
  /\ info = info_init

\* a public call of thread t returns
Return(t, op, arg, r) ==
  call' = [call EXCEPT ![t] = [op |-> op, arg |-> arg, ret |-> r]]

(***************************************************************************)
(* The configuration setters: each is a function from the component        *)
(* record and the argument to the returned code and the new record.        *)
(***************************************************************************)
set_buffer_mut(g, buffer) ==
  [ret |-> IF g.to # NULL THEN EALREADY ELSE 0,
   gl |-> [g EXCEPT !.to = buffer]]

set_buffer(g, buffer) ==
  IF g.to # NULL
  THEN [ret |-> EALREADY, gl |-> g]
  ELSE [ret |-> 0, gl |-> [g EXCEPT !.to = buffer]]

set_read_buffer(g, buffer) ==
  IF buffer \in {GL_FRONT, GL_BACK}
  THEN [ret |-> 0, gl |-> [g EXCEPT !.capture_buffer = buffer]]
  ELSE [ret |-> ENOTSUP, gl |-> g]

\* glcs_d2q(fps, max): the closest rational with a denominator <= max; a
\* double that is n/d in lowest terms with d <= max is returned as is.
glcs_d2q(fps, max) ==
  LET g == Gcd(IF fps[1] < 0 THEN -fps[1] ELSE fps[1], fps[2])
  IN [num |-> fps[1] \div g, den |-> fps[2] \div g]

\* glcs_div_q(b, a): b / a in lowest terms, for b and a in lowest terms.
\* The numerator b.num * a.den does not fit 32 bits (10^11 for 29.97 fps):
\* it is kept as the pair of its two factors.
glcs_div_q(b, a) ==
  LET g == Gcd(b.num, a.num)
      h == Gcd(a.den, b.den)
  IN [num |-> <<b.num \div g, a.den \div h>>,
      den |-> (b.den \div h) * (a.num \div g)]

\* n[1] * n[2] / d and n[1] * n[2] % d of the C integers, by long division
wide_div(n, d) == (n[1] \div d) * n[2] + ((n[1] % d) * n[2]) \div d
wide_mod(n, d) == ((n[1] % d) * n[2]) % d

\* the remainder counted on every frame rather than kept (not the code)
set_fps_trunc(g, fps) ==
  IF fps[1] <= 0
  THEN [ret |-> EINVAL, gl |-> g]
  ELSE LET a == glcs_d2q(fps, 1001000)
           c == glcs_div_q([num |-> NSEC_PER_SEC, den |-> 1], a)
       IN [ret |-> 0,
           gl |-> [g EXCEPT !.fps_period = wide_div(c.num, c.den),
                            !.fps_rem = wide_mod(c.num, c.den),
                            !.fps_rem_period = 1]]

\* fps is the double n/d, given as <<n, d>> with d > 0
set_fps(g, fps) ==
  IF fps[1] <= 0
  THEN [ret |-> EINVAL, gl |-> g]
  ELSE LET a == glcs_d2q(fps, 1001000)
           c == glcs_div_q([num |-> NSEC_PER_SEC, den |-> 1], a)
       IN [ret |-> 0,
           gl |-> [g EXCEPT !.fps_period = wide_div(c.num, c.den),
                            !.fps_rem = wide_mod(c.num, c.den),
                            !.fps_rem_period = c.den]]

set_pack_alignment(g, pack_alignment) ==
  IF pack_alignment \in {1, 8}
  THEN [ret |-> 0, gl |-> [g EXCEPT !.pack_alignment = pack_alignment]]
  ELSE [ret |-> ENOTSUP, gl |-> g]

set_pixel_format(g, format) ==
  IF format = GL_BGRA
  THEN [ret |-> 0, gl |-> [g EXCEPT !.bpp = 4, !.format = format]]
  ELSE IF format = GL_BGR
       THEN [ret |-> 0, gl |-> [g EXCEPT !.bpp = 3, !.format = format]]
       ELSE [ret |-> ENOTSUP, gl |-> g]

\* the arguments the control thread passes
Buffers == {1, 2}
ReadBuffers == {GL_FRONT, GL_BACK, 0}
FpsArgs == {<<30, 1>>, <<60, 1>>, <<15, 2>>, <<2997, 100>>, <<0, 1>>, <<-1, 1>>}
PackAlignments == {1, 4, 8}
PixelFormats == {GL_BGR, GL_BGRA, 0}

\* a setter call of the control thread: one step
Setter(op, arg, res) ==
  /\ pc[CTL] = "idle"
  /\ gl' = res.gl
  /\ Return(CTL, op, arg, res.ret)
  /\ UNCHANGED <<flags, capture_spinlock, mutex, video, pc, loc>>
  /\ UNCHANGED envVars

gl_capture_set_buffer(buffer) ==
  Setter("set_buffer", buffer, set_buffer(gl, buffer))

gl_capture_set_read_buffer(buffer) ==
  Setter("set_read_buffer", buffer, set_read_buffer(gl, buffer))

gl_capture_set_fps(fps) == Setter("set_fps", fps, set_fps(gl, fps))

gl_capture_set_pack_alignment(a) ==
  Setter("set_pack_alignment", a, set_pack_alignment(gl, a))

gl_capture_set_pixel_format(f) ==
  Setter("set_pixel_format", f, set_pixel_format(gl, f))

(***************************************************************************)
(* Streams.                                                                *)
(***************************************************************************)
\* calloc'ed gl_capture_video_stream_s as gl_capture_get_video_stream fills it
new_video_stream(dpy, drawable, id) ==
  [id |-> id, dpy |-> dpy, drawable |-> drawable,
   flags |-> {"NEED_COLOR_UPDATE"},
   format |-> 0, attribWin |-> 0,
   last |-> 0, pbo_time |-> 0,
   w |-> 0, h |-> 0, cw |-> 0, ch |-> 0, row |-> 0, cx |-> 0, cy |-> 0,
   gamma |-> <<0, 0, 0>>,
   indicator_list |-> 0,
   pbo |-> 0, pbo_active |-> 0,
   num_frames |-> 0, num_captured_frames |-> 0,
   packet |-> [open |-> FALSE, try |-> FALSE]]

\* the list walk of gl_capture_get_video_stream, from the head (the last
\* element of video) on: the first record of that dpy and drawable, or 0
find_video_stream(vs, dpy, drawable) ==
  LET hits == {i \in 1..Len(vs) : vs[i].drawable = drawable /\ vs[i].dpy = dpy}
  IN IF hits = {} THEN 0 ELSE CHOOSE i \in hits : \A j \in hits : j <= i

get_video_stream_nobit(vs, dpy, drawable) ==
  LET f == find_video_stream(vs, dpy, drawable)
      id == IF f = 0 THEN Len(vs) + 1 ELSE f
      list == IF f = 0 THEN Append(vs, new_video_stream(dpy, drawable, id))
              ELSE vs
  IN [id |-> id, video |-> list]

\* gl_capture_get_video_stream: look the stream up or create it at the head
\* of the list, and set its CAPTURING bit
get_video_stream(vs, dpy, drawable) ==
  LET f == find_video_stream(vs, dpy, drawable)
      id == IF f = 0 THEN Len(vs) + 1 ELSE f
      list == IF f = 0 THEN Append(vs, new_video_stream(dpy, drawable, id))
              ELSE vs
  IN [id |-> id,
      video |-> [list EXCEPT ![id].flags = @ \cup {"CAPTURING"}]]

\* gl_capture_release_video_stream
release_video_stream(vs, id) ==
  [vs EXCEPT ![id].flags = @ \ {"CAPTURING"}]

\* the frame() calls between gl_capture_get_video_stream and
\* gl_capture_release_video_stream
CapturePcs ==
  {"time", "update", "pbo_lock", "pbo_store", "geometry", "fmt_open", "color",
   "color_open", "pbo_start", "frame_open", "frame_write", "cancel", "sleep",
   "finish"}

InCapture(t) == t \in FrameThreads /\ pc[t] \in CapturePcs

InFlight(id) == {t \in FrameThreads : InCapture(t) /\ loc[t].video = id}

(***************************************************************************)
(* Thread bookkeeping.                                                     *)
(***************************************************************************)
Goto(t, p) == pc' = [pc EXCEPT ![t] = p]

SetVideo(id, v) == video' = [video EXCEPT ![id] = v]

Publish(buf, msg) == [buf EXCEPT !.msgs = Append(@, msg)]

\* the locals l after a packet or GL call has returned e
Returned(l, e) ==
  IF l.hard = 0 /\ e \notin {0, EBUSY} THEN [l EXCEPT !.hard = e] ELSE l

\* what a packet call on the buffer returns at once: EINTR once the buffer
\* is cancelled
ps_cancelled_ret(buf) == IF buf.cancelled THEN EINTR ELSE 0

(***************************************************************************)
(* gl_capture_start                                                        *)
(***************************************************************************)
gl_capture_start ==
  /\ pc[CTL] = "idle"
  /\ IF gl.to = NULL
     THEN /\ Return(CTL, "start", 0, EAGAIN)
          /\ UNCHANGED <<pc, loc>>
     ELSE /\ Goto(CTL, "start_store")
          /\ loc' = [loc EXCEPT ![CTL].tmp = flags]
          /\ call' = [call EXCEPT ![CTL] = [op |-> "start", arg |-> 0, ret |-> -1]]
  /\ UNCHANGED <<gl, flags, capture_spinlock, mutex, video>>
  /\ UNCHANGED envVars

\* flags |= GL_CAPTURE_CAPTURING: the store of the read-modify-write
gl_capture_start_store ==
  /\ pc[CTL] = "start_store"
  /\ flags' = loc[CTL].tmp \cup {"CAPTURING"}
  /\ Goto(CTL, "idle")
  /\ Return(CTL, "start", 0, 0)
  /\ loc' = [loc EXCEPT ![CTL] = NoLocals]
  /\ UNCHANGED <<gl, capture_spinlock, mutex, video>>
  /\ UNCHANGED envVars

(***************************************************************************)
(* gl_capture_stop, called by the control thread or, from                  *)
(* gl_capture_error, by a render thread.                                   *)
(***************************************************************************)
gl_capture_stop ==
  /\ pc[CTL] = "idle"
  /\ IF "CAPTURING" \in flags
     THEN /\ Goto(CTL, "stop_lock")
          /\ loc' = [loc EXCEPT ![CTL].from = "api"]
          /\ call' = [call EXCEPT ![CTL] = [op |-> "stop", arg |-> 0, ret |-> -1]]
     ELSE /\ Return(CTL, "stop", 0, 0)
          /\ UNCHANGED <<pc, loc>>
  /\ UNCHANGED compVars
  /\ UNCHANGED envVars

\* spin_lock, and the load of flags &= ~GL_CAPTURE_CAPTURING
stop_lock(t) ==
  /\ pc[t] = "stop_lock"
  /\ capture_spinlock = 0
  /\ capture_spinlock' = t + 1
  /\ loc' = [loc EXCEPT ![t].tmp = flags]
  /\ Goto(t, "stop_clear")
  /\ UNCHANGED <<gl, flags, mutex, video, call>>
  /\ UNCHANGED envVars

\* the store of flags &= ~GL_CAPTURE_CAPTURING, and spin_unlock
stop_clear(t) ==
  /\ pc[t] = "stop_clear"
  /\ flags' = loc[t].tmp \ {"CAPTURING"}
  /\ capture_spinlock' = 0
  /\ loc' = [loc EXCEPT ![t].tmp = {}]
  /\ Goto(t, "clear_streams")
  /\ UNCHANGED <<gl, mutex, video, call>>
  /\ UNCHANGED envVars

\* gl_capture_clear_video_streams: fvideo = gl_capture->video
clear_video_streams(t) ==
  /\ pc[t] = "clear_streams"
  /\ loc' = [loc EXCEPT ![t].cur = Len(video)]
  /\ Goto(t, "drain")
  /\ UNCHANGED <<call>>
  /\ UNCHANGED compVars
  /\ UNCHANGED envVars

\* one round of the outer loop of gl_capture_clear_video_streams: the inner
\* loop sleeps while the stream's CAPTURING bit is set
clear_video_streams_next(t) ==
  /\ pc[t] = "drain"
  /\ loc[t].cur # 0
  /\ "CAPTURING" \notin video[loc[t].cur].flags
  /\ video' = [video EXCEPT ![loc[t].cur].last = 0]
  /\ loc' = [loc EXCEPT ![t].cur = @ - 1]
  /\ UNCHANGED <<gl, flags, capture_spinlock, mutex, pc, call>>
  /\ UNCHANGED envVars

\* gl_capture_stop returns, to its caller or into gl_capture_error
stop_return(t) ==
  /\ pc[t] = "drain"
  /\ loc[t].cur = 0
  /\ IF loc[t].from = "api"
     THEN /\ Goto(t, "idle")
          /\ Return(t, "stop", 0, 0)
          /\ loc' = [loc EXCEPT ![t] = NoLocals]
     ELSE /\ Goto(t, "error_cancel")
          /\ loc' = [loc EXCEPT ![t].cur = 0, ![t].tmp = {}]
          /\ UNCHANGED call
  /\ UNCHANGED compVars
  /\ UNCHANGED envVars

\* gl_capture_error: stop capturing if it is active
gl_capture_error(t) ==
  /\ pc[t] = "error"
  /\ IF "CAPTURING" \in flags
     THEN Goto(t, "stop_lock") /\ loc' = [loc EXCEPT ![t].from = "error"]
     ELSE Goto(t, "error_cancel") /\ UNCHANGED loc
  /\ UNCHANGED <<call>>
  /\ UNCHANGED compVars
  /\ UNCHANGED envVars

\* gl_capture_error: cancel glc and the buffer; frame() returns the error
gl_capture_error_cancel(t) ==
  /\ pc[t] = "error_cancel"
  /\ glc_state' = "CANCEL"
  /\ ps' = IF gl.to # NULL THEN [ps EXCEPT !.cancelled = TRUE] ELSE ps
  /\ Goto(t, "idle")
  /\ Return(t, "frame", loc[t].drawable, loc[t].ret)
  /\ loc' = [loc EXCEPT ![t] = NoLocals]
  /\ UNCHANGED <<clock, xgeom, xgamma, gl_ext, gl_map_ok, shared_drawable, sched, tracker, scale, info>>
  /\ UNCHANGED compVars

(***************************************************************************)
(* gl_capture_frame, step by step.                                         *)
(***************************************************************************)
\* lines 907-915: under the spin lock, return when capturing is not active,
\* else look the stream up and set its CAPTURING bit; a stream captures at
\* most budget frames
gl_capture_frame(t, drawable, budget) ==
  /\ pc[t] = "idle"
  /\ capture_spinlock = 0
  /\ shared_drawable
       \/ \A u \in FrameThreads \ {t} :
            pc[u] # "idle" => loc[u].drawable # drawable
  /\ IF "CAPTURING" \notin flags
     THEN /\ Return(t, "frame", drawable, 0)
          /\ UNCHANGED <<video, pc, loc>>
     ELSE LET r == get_video_stream(video, Dpy, drawable)
          IN /\ r.video[r.id].num_frames < budget
             /\ video' = r.video
             /\ Goto(t, "time")
             /\ loc' = [loc EXCEPT ![t] = [NoLocals EXCEPT !.video = r.id,
                                                           !.drawable = drawable]]
             /\ UNCHANGED call
  /\ UNCHANGED <<gl, flags, capture_spinlock, mutex>>
  /\ UNCHANGED envVars

\* every frame() call captures, whatever time has elapsed
frame_due_always(fl, g, n, last) == TRUE

\* lines 924-926: whether the frame is captured rather than dropped by schedule
frame_due(fl, g, n, last) ==
  ~(/\ u64_sub_lt(n, last, g.fps_period)
    /\ "LOCK_FPS" \notin fl
    /\ "IGNORE_TIME" \notin fl)

\* lines 917-927
frame_time(t) ==
  /\ pc[t] = "time"
  /\ LET v == video[loc[t].video]
         n == IF "IGNORE_TIME" \in flags THEN v.last + gl.fps_period ELSE clock
     IN /\ loc' = [loc EXCEPT ![t].now = n]
        /\ IF frame_due(flags, gl, n, v.last)
           THEN Goto(t, "update")
           ELSE Goto(t, "finish")
  /\ UNCHANGED <<call>>
  /\ UNCHANGED compVars
  /\ UNCHANGED envVars

\* gl_capture_update_video_stream, lines 851-852: the test before the lock
update_video_stream(t) ==
  /\ pc[t] = "update"
  /\ IF "USE_PBO" \notin flags /\ "TRY_PBO" \in flags
     THEN Goto(t, "pbo_lock")
     ELSE Goto(t, "geometry")
  /\ UNCHANGED <<loc, call>>
  /\ UNCHANGED compVars
  /\ UNCHANGED envVars

\* gl_capture_init_pbo: 0, or ENOTSUP without the extension
gl_capture_init_pbo == IF gl_ext THEN 0 ELSE ENOTSUP

\* lines 853-859: lock the mutex, retest, call gl_capture_init_pbo and load
\* the flags word for the read-modify-write of line 860 or 862
update_pbo_lock(t) ==
  /\ pc[t] = "pbo_lock"
  /\ mutex = 0
  /\ IF "USE_PBO" \notin flags /\ "TRY_PBO" \in flags
     THEN /\ mutex' = t + 1
          /\ loc' = [loc EXCEPT ![t].tmp = flags]
          /\ Goto(t, "pbo_store")
     ELSE /\ UNCHANGED <<mutex, loc>>
          /\ Goto(t, "geometry")
  /\ UNCHANGED <<gl, flags, capture_spinlock, video, call>>
  /\ UNCHANGED envVars

\* lines 860-865: the store of the read-modify-write, and the unlock
update_pbo_store(t) ==
  /\ pc[t] = "pbo_store"
  /\ flags' = IF gl_capture_init_pbo = 0
              THEN loc[t].tmp \cup {"USE_PBO"}
              ELSE loc[t].tmp \ {"TRY_PBO"}
  /\ mutex' = 0
  /\ loc' = [loc EXCEPT ![t].tmp = {}]
  /\ Goto(t, "geometry")
  /\ UNCHANGED <<gl, capture_spinlock, video, call>>
  /\ UNCHANGED envVars

\* unsigned int arithmetic
UintBits == 16
u32(x) == x % (2 ^ UintBits)

\* gamma values are in tenths: 1.0
gamma_one == <<10, 10, 10>>

GLC_VIDEO_BGR == 1
GLC_VIDEO_BGRA == 2

\* gl_capture_init_video_format
init_video_format(g, v) ==
  [v EXCEPT !.gamma = gamma_one,
            !.format = IF g.format = GL_BGRA THEN GLC_VIDEO_BGRA
                       ELSE GLC_VIDEO_BGR,
            !.flags = IF g.pack_alignment = 8 THEN @ \cup {"DWORD_ALIGNED"}
                      ELSE @]

\* gl_capture_calc_geometry
calc_geometry(g, fl, v, w, h) ==
  LET crop == "CROP" \in fl
      cx == IF crop /\ ~(g.crop_x > w) THEN g.crop_x ELSE 0
      cy0 == IF crop /\ ~(g.crop_y > h) THEN g.crop_y ELSE 0
      cw == IF crop
            THEN IF u32(g.crop_w + cx) > w THEN u32(w - cx) ELSE g.crop_w
            ELSE w
      ch == IF crop
            THEN IF u32(g.crop_h + cy0) > h THEN u32(h - cy0) ELSE g.crop_h
            ELSE h
      cy == IF crop THEN u32(h - ch - cy0) ELSE 0
      row0 == u32(cw * g.bpp)
      row == IF row0 % g.pack_alignment # 0
             THEN u32(row0 + g.pack_alignment - (row0 % g.pack_alignment))
             ELSE row0
  IN [v EXCEPT !.w = w, !.h = h, !.cx = cx, !.cy = cy, !.cw = cw, !.ch = ch,
               !.row = row]

\* the geometry is updated but no VIDEO_FORMAT message follows (not the code)
update_geometry_quiet(t) ==
  /\ pc[t] = "geometry"
  /\ LET id == loc[t].video
         v == video[id]
         wh == xgeom[IF v.attribWin # 0 THEN v.attribWin ELSE v.drawable]
         v1 == IF v.format = 0 THEN init_video_format(gl, v) ELSE v
     IN SetVideo(id, calc_geometry(gl, flags, v1, wh[1], wh[2]))
  /\ Goto(t, "color")
  /\ UNCHANGED <<gl, flags, capture_spinlock, mutex, loc, call>>
  /\ UNCHANGED envVars

\* lines 868-878: query the window size, initialise the format once, and
\* on a changed size compute the geometry (line 809)
update_geometry(t) ==
  /\ pc[t] = "geometry"
  /\ LET id == loc[t].video
         v == video[id]
         wh == xgeom[IF v.attribWin # 0 THEN v.attribWin ELSE v.drawable]
         v1 == IF v.format = 0 THEN init_video_format(gl, v) ELSE v
     IN IF wh[1] # v1.w \/ wh[2] # v1.h
        THEN /\ SetVideo(id, calc_geometry(gl, flags, v1, wh[1], wh[2]))
             /\ Goto(t, "fmt_open")
        ELSE /\ SetVideo(id, v1)
             /\ Goto(t, "color")
  /\ UNCHANGED <<gl, flags, capture_spinlock, mutex, loc, call>>
  /\ UNCHANGED envVars

\* a packet open without PS_PACKET_TRY returns once the buffer is free, or
\* at once with an error when the buffer is cancelled
ps_blocking_ready(buf) == buf.cancelled \/ (buf.lock = 0 /\ ~buf.full)

video_format_message(v) ==
  [type |-> "VIDEO_FORMAT", id |-> v.id,
   flags |-> v.flags \ {"CAPTURING", "NEED_COLOR_UPDATE"},
   format |-> v.format, width |-> v.cw, height |-> v.ch]

\* gl_capture_write_video_format_message, lines 814-840: the results of the
\* packet calls are not looked at
write_video_format_message(t) ==
  /\ pc[t] = "fmt_open"
  /\ ps_blocking_ready(ps)
  /\ LET id == loc[t].video
         v == video[id]
     IN /\ ps' = IF ps.cancelled THEN ps
                 ELSE Publish(ps, video_format_message(v))
        /\ IF "USE_PBO" \in flags
           THEN SetVideo(id, [v EXCEPT !.pbo = @ + 1])
           ELSE UNCHANGED video
  /\ Goto(t, "color")
  /\ loc' = [loc EXCEPT ![t] = Returned(@, ps_cancelled_ret(ps))]
  /\ UNCHANGED <<gl, flags, capture_spinlock, mutex, call>>
  /\ UNCHANGED <<clock, xgeom, xgamma, gl_ext, gl_map_ok, glc_state,
                 shared_drawable, sched, tracker, scale, info>>

\* a COLOR message on every update, equal triplet or not (not the code)
update_color_always(t) ==
  /\ pc[t] = "color"
  /\ LET id == loc[t].video
         v == video[id]
     IN IF "NEED_COLOR_UPDATE" \in v.flags
        THEN /\ SetVideo(id, [v EXCEPT !.flags = @ \ {"NEED_COLOR_UPDATE"},
                                       !.gamma = xgamma])
             /\ Goto(t, "color_open")
        ELSE /\ UNCHANGED video
             /\ Goto(t, "pbo_start")
  /\ UNCHANGED <<gl, flags, capture_spinlock, mutex, loc, call>>
  /\ UNCHANGED envVars

\* lines 881-882 and gl_capture_update_color, lines 1060-1073
update_color(t) ==
  /\ pc[t] = "color"
  /\ LET id == loc[t].video
         v == video[id]
     IN IF "NEED_COLOR_UPDATE" \in v.flags
        THEN IF xgamma = v.gamma
             THEN /\ SetVideo(id, [v EXCEPT !.flags = @ \ {"NEED_COLOR_UPDATE"}])
                  /\ Goto(t, "pbo_start")
             ELSE /\ SetVideo(id, [v EXCEPT !.flags = @ \ {"NEED_COLOR_UPDATE"},
                                            !.gamma = xgamma])
                  /\ Goto(t, "color_open")
        ELSE /\ UNCHANGED video
             /\ Goto(t, "pbo_start")
  /\ UNCHANGED <<gl, flags, capture_spinlock, mutex, loc, call>>
  /\ UNCHANGED envVars

color_message(v) ==
  [type |-> "COLOR", id |-> v.id, brightness |-> 0, contrast |-> 0,
   red |-> v.gamma[1], green |-> v.gamma[2], blue |-> v.gamma[3]]

\* gl_capture_update_color, lines 1082-1101: on an error the packet is
\* cancelled and the error returned; line 882 drops it
update_color_write(t) ==
  /\ pc[t] = "color_open"
  /\ ps_blocking_ready(ps)
  /\ ps' = IF ps.cancelled THEN ps
           ELSE Publish(ps, color_message(video[loc[t].video]))
  /\ Goto(t, "pbo_start")
  /\ loc' = [loc EXCEPT ![t] = Returned(@, ps_cancelled_ret(ps))]
  /\ UNCHANGED <<call>>
  /\ UNCHANGED compVars
  /\ UNCHANGED <<clock, xgeom, xgamma, gl_ext, gl_map_ok, glc_state,
                 shared_drawable, sched, tracker, scale, info>>

\* the time of the harvesting call in every frame header (not the code)
frame_time_stamp_now(fl, v, n) == n

\* lines 969-970
frame_time_stamp(fl, v, n) ==
  IF "USE_PBO" \in fl /\ v.pbo_time < n THEN v.pbo_time ELSE n

video_frame_message(fl, v, n) ==
  [type |-> "VIDEO_FRAME", id |-> v.id, time |-> frame_time_stamp(fl, v, n),
   size |-> v.row * v.ch]

\* lines 1009-1012, after num_captured_frames was incremented
\* the remainder added on every frame (not the code)
advance_last_every(g, v) ==
  [v EXCEPT !.last = @ + g.fps_period + g.fps_rem]

advance_last(g, v) ==
  [v EXCEPT !.last = @ + g.fps_period
                       + IF v.num_captured_frames % g.fps_rem_period = 0
                         THEN g.fps_rem ELSE 0]

\* lines 936-944: count the frame; with PBO in use and no transfer active,
\* start one and finish
frame_pbo_start(t) ==
  /\ pc[t] = "pbo_start"
  /\ LET id == loc[t].video
         v == [video[id] EXCEPT !.num_frames = @ + 1]
     IN IF "USE_PBO" \in flags /\ v.pbo_active = 0
        THEN /\ SetVideo(id, [v EXCEPT !.pbo_active = 1,
                                       !.pbo_time = loc[t].now])
             /\ Goto(t, "finish")
        ELSE /\ SetVideo(id, v)
             /\ Goto(t, "frame_open")
  /\ UNCHANGED <<gl, flags, capture_spinlock, mutex, loc, call>>
  /\ UNCHANGED envVars

\* lines 946-950: PS_PACKET_TRY unless LOCK_FPS or IGNORE_TIME is set
frame_open_try_mut(fl) == FALSE

frame_open_try(fl) == "LOCK_FPS" \notin fl /\ "IGNORE_TIME" \notin fl

\* lines 946-951: a failed open goes to finish with ret = 0
frame_open(t) ==
  /\ pc[t] = "frame_open"
  /\ LET id == loc[t].video
         try == frame_open_try(flags)
     IN /\ try \/ ps.cancelled \/ ps.lock = 0
        /\ IF ps.cancelled \/ ps.lock # 0
           THEN /\ Goto(t, "finish")
                /\ loc' = [loc EXCEPT ![t] = Returned(@, ps_cancelled_ret(ps))]
                /\ UNCHANGED <<video, ps>>
           ELSE /\ Goto(t, "frame_write")
                /\ ps' = [ps EXCEPT !.lock = t + 1]
                /\ SetVideo(id, [video[id] EXCEPT
                                   !.packet = [open |-> TRUE, try |-> try]])
                /\ UNCHANGED loc
  /\ UNCHANGED <<gl, flags, capture_spinlock, mutex, call>>
  /\ UNCHANGED <<clock, xgeom, xgamma, gl_ext, gl_map_ok, glc_state,
                 shared_drawable, sched, tracker, scale, info>>

\* the code the packet calls of lines 953-990 end with: EINTR from any of
\* them on a cancelled buffer, EBUSY from ps_packet_setsize on a full
\* buffer under PS_PACKET_TRY, EINVAL from gl_capture_read_pbo when
\* glMapBuffer returns NULL, or 0
frame_write_ret(fl, v, buf, map_ok) ==
  IF buf.cancelled THEN EINTR
  ELSE IF buf.full THEN EBUSY
  ELSE IF "USE_PBO" \in fl /\ ~(v.pbo # 0 /\ map_ok) THEN EINVAL
  ELSE 0

frame_cancel_ret_mut(r) == r

\* lines 1023-1031: EBUSY is no error
frame_cancel_ret(r) == IF r = EBUSY THEN 0 ELSE r

\* lines 953-1012: size the packet, write the headers and the pixels,
\* close, count and advance last; on an error go to cancel
frame_write(t) ==
  /\ pc[t] = "frame_write"
  /\ LET id == loc[t].video
         v == video[id]
         r == frame_write_ret(flags, v, ps, gl_map_ok)
     IN /\ v.packet.try \/ ps.cancelled \/ ~ps.full
        /\ IF r # 0
           THEN /\ loc' = [loc EXCEPT ![t] = [Returned(@, r) EXCEPT !.ret = r]]
                /\ Goto(t, "cancel")
                /\ UNCHANGED <<video, ps>>
           ELSE LET w == [v EXCEPT
                            !.packet = [open |-> FALSE, try |-> FALSE],
                            !.num_captured_frames = @ + 1,
                            !.pbo_time = IF "USE_PBO" \in flags
                                         THEN loc[t].now ELSE @]
                IN /\ ps' = [Publish(ps, video_frame_message(flags, v, loc[t].now))
                               EXCEPT !.lock = 0]
                   /\ loc' = [loc EXCEPT ![t].now = clock]
                   /\ IF /\ "LOCK_FPS" \in flags
                         /\ "IGNORE_TIME" \notin flags
                         /\ u64_sub_lt(clock, v.last, gl.fps_period)
                      THEN SetVideo(id, w) /\ Goto(t, "sleep")
                      ELSE SetVideo(id, advance_last(gl, w)) /\ Goto(t, "finish")
  /\ UNCHANGED <<gl, flags, capture_spinlock, mutex, call>>
  /\ UNCHANGED <<clock, xgeom, xgamma, gl_ext, gl_map_ok, glc_state,
                 shared_drawable, sched, tracker, scale, info>>

\* lines 1023-1031: EBUSY becomes 0; ps_packet_cancel
frame_cancel(t) ==
  /\ pc[t] = "cancel"
  /\ LET id == loc[t].video
     IN SetVideo(id, [video[id] EXCEPT
                        !.packet = [open |-> FALSE, try |-> FALSE]])
  /\ ps' = [ps EXCEPT !.lock = 0]
  /\ loc' = [loc EXCEPT ![t].ret = frame_cancel_ret(@)]
  /\ Goto(t, "finish")
  /\ UNCHANGED <<gl, flags, capture_spinlock, mutex, call>>
  /\ UNCHANGED <<clock, xgeom, xgamma, gl_ext, gl_map_ok, glc_state,
                 shared_drawable, sched, tracker, scale, info>>

\* lines 1000-1012: clock_nanosleep until last + fps_period, then advance
frame_sleep(t) ==
  /\ pc[t] = "sleep"
  /\ LET id == loc[t].video
     IN /\ clock >= video[id].last + gl.fps_period
        /\ SetVideo(id, advance_last(gl, video[id]))
  /\ Goto(t, "finish")
  /\ UNCHANGED <<gl, flags, capture_spinlock, mutex, loc, call>>
  /\ UNCHANGED envVars

\* lines 1014-1022: release the stream; on an error call gl_capture_error
frame_finish(t) ==
  /\ pc[t] = "finish"
  /\ video' = release_video_stream(video, loc[t].video)
  /\ IF loc[t].ret # 0
     THEN /\ Goto(t, "error")
          /\ UNCHANGED <<call, loc>>
     ELSE /\ Goto(t, "idle")
          /\ Return(t, "frame", loc[t].drawable, 0)
          /\ loc' = [loc EXCEPT ![t] = NoLocals]
  /\ UNCHANGED <<gl, flags, capture_spinlock, mutex>>
  /\ UNCHANGED envVars

(***************************************************************************)
(* The other public operations of the control thread.                      *)
(***************************************************************************)
gl_capture_set_attribute_window(drawable, window) ==
  /\ pc[CTL] = "idle"
  /\ LET r == get_video_stream(video, Dpy, drawable)
     IN video' = [r.video EXCEPT ![r.id].attribWin = window]
  /\ Return(CTL, "set_attribute_window", drawable, 0)
  /\ UNCHANGED <<gl, flags, capture_spinlock, mutex, pc, loc>>
  /\ UNCHANGED envVars

gl_capture_refresh_color_correction ==
  /\ pc[CTL] = "idle"
  /\ video' = [i \in 1..Len(video) |->
                 [video[i] EXCEPT !.flags = @ \cup {"NEED_COLOR_UPDATE"}]]
  /\ Return(CTL, "refresh_color_correction", 0, 0)
  /\ UNCHANGED <<gl, flags, capture_spinlock, mutex, pc, loc>>
  /\ UNCHANGED envVars

\* the flag each switch of the control thread sets or clears
FlagOf(op) ==
  CASE op = "try_pbo" -> "TRY_PBO"
    [] op = "crop" -> "CROP"
    [] op = "draw_indicator" -> "DRAW_INDICATOR"
    [] op = "ignore_time" -> "IGNORE_TIME"
    [] op = "lock_fps" -> "LOCK_FPS"

\* the load of flags |= bit or flags &= ~bit; on is 0 or 1
flag_load(op, on) ==
  /\ pc[CTL] = "idle"
  /\ Goto(CTL, "flag_store")
  /\ loc' = [loc EXCEPT ![CTL].tmp = flags, ![CTL].op = op, ![CTL].arg = on]
  /\ UNCHANGED <<call>>
  /\ UNCHANGED compVars
  /\ UNCHANGED envVars

\* the store of flags |= bit or flags &= ~bit
flag_store ==
  /\ pc[CTL] = "flag_store"
  /\ flags' = IF loc[CTL].arg # 0
              THEN loc[CTL].tmp \cup {FlagOf(loc[CTL].op)}
              ELSE loc[CTL].tmp \ {FlagOf(loc[CTL].op)}
  /\ Goto(CTL, "idle")
  /\ Return(CTL, loc[CTL].op, loc[CTL].arg, 0)
  /\ loc' = [loc EXCEPT ![CTL] = NoLocals]
  /\ UNCHANGED <<gl, capture_spinlock, mutex, video>>
  /\ UNCHANGED envVars

\* PBO revoked whether or not it is in use (not the code)
gl_capture_try_pbo_revoke(try_pbo) == flag_load("try_pbo", try_pbo)

gl_capture_try_pbo(try_pbo) ==
  IF try_pbo = 0 /\ "USE_PBO" \in flags
  THEN /\ pc[CTL] = "idle"
       /\ Return(CTL, "try_pbo", try_pbo, EAGAIN)
       /\ UNCHANGED <<pc, loc>>
       /\ UNCHANGED compVars
       /\ UNCHANGED envVars
  ELSE flag_load("try_pbo", try_pbo)

gl_capture_draw_indicator(on) == flag_load("draw_indicator", on)

\* lines 376-391: an all-zero rectangle clears CROP; any other is stored and
\* CROP is set, the flags word being loaded here and stored by flag_store
gl_capture_crop(x, y, width, height) ==
  IF x = 0 /\ y = 0 /\ width = 0 /\ height = 0
  THEN flag_load("crop", 0)
  ELSE /\ pc[CTL] = "idle"
       /\ gl' = [gl EXCEPT !.crop_x = x, !.crop_y = y,
                           !.crop_w = width, !.crop_h = height]
       /\ Goto(CTL, "flag_store")
       /\ loc' = [loc EXCEPT ![CTL].tmp = flags, ![CTL].op = "crop",
                             ![CTL].arg = 1]
       /\ UNCHANGED <<flags, capture_spinlock, mutex, video, call>>
       /\ UNCHANGED envVars

gl_capture_ignore_time(on) == flag_load("ignore_time", on)

gl_capture_lock_fps(on) == flag_load("lock_fps", on)

(***************************************************************************)
(* The environment.                                                        *)
(***************************************************************************)
\* glc_state_time() advances
Tick(d) ==
  /\ clock + d <= MaxClock * TICK_NS
  /\ clock' = clock + d
  /\ UNCHANGED <<pc, loc, call>>
  /\ UNCHANGED compVars
  /\ UNCHANGED <<xgeom, xgamma, gl_ext, gl_map_ok, ps, glc_state,
                 shared_drawable, sched, tracker, scale, info>>

PsEnv(buf) ==
  /\ ps' = buf
  /\ UNCHANGED <<pc, loc, call>>
  /\ UNCHANGED compVars
  /\ UNCHANGED <<clock, xgeom, xgamma, gl_ext, gl_map_ok, glc_state,
                 shared_drawable, sched, tracker, scale, info>>

\* another writer of the buffer opens and closes a packet
ps_writer_open == ps.lock = 0 /\ PsEnv([ps EXCEPT !.lock = -1])
ps_writer_close == ps.lock = -1 /\ PsEnv([ps EXCEPT !.lock = 0])

\* the buffer fills up; the reader frees room
ps_fill == ~ps.full /\ PsEnv([ps EXCEPT !.full = TRUE])
ps_drain == ps.full /\ PsEnv([ps EXCEPT !.full = FALSE])

\* a reader cancels the buffer
ps_buffer_cancel == ~ps.cancelled /\ PsEnv([ps EXCEPT !.cancelled = TRUE])

\* the user changes the gamma of the screen
x_set_gamma ==
  /\ xgamma = gamma_one
  /\ xgamma' = <<12, 10, 10>>
  /\ UNCHANGED <<pc, loc, call>>
  /\ UNCHANGED compVars
  /\ UNCHANGED <<clock, xgeom, gl_ext, gl_map_ok, ps, glc_state, shared_drawable, sched, tracker, scale, info>>

\* the state time starts again from 0 when the capture is reloaded (the
\* comment of lines 963-968)
glc_state_time_reset ==
  /\ clock # 0
  /\ clock' = 0
  /\ UNCHANGED <<pc, loc, call>>
  /\ UNCHANGED compVars
  /\ UNCHANGED <<xgeom, xgamma, gl_ext, gl_map_ok, ps, glc_state,
                 shared_drawable, sched, tracker, scale, info>>

\* the sizes the user gives a window
WindowSizes == {<<4, 2>>, <<3, 5>>}

\* the user resizes the window of drawable d
x_resize_window(d) ==
  /\ \E wh \in WindowSizes \ {xgeom[d]} : xgeom' = [xgeom EXCEPT ![d] = wh]
  /\ UNCHANGED <<pc, loc, call>>
  /\ UNCHANGED compVars
  /\ UNCHANGED <<clock, xgamma, gl_ext, gl_map_ok, ps, glc_state,
                 shared_drawable, sched, tracker, scale, info>>

\* glMapBuffer starts to fail
gl_map_fail ==
  /\ gl_map_ok
  /\ gl_map_ok' = FALSE
  /\ UNCHANGED <<pc, loc, call>>
  /\ UNCHANGED compVars
  /\ UNCHANGED <<clock, xgeom, xgamma, gl_ext, ps, glc_state, shared_drawable, sched, tracker, scale, info>>

(***************************************************************************)
(* The state tracker (glc/core/tracker.c).                                 *)
(***************************************************************************)
\* the messages given to tracker_submit: the type of the header, the stream
\* id and the rest of the message
StreamIds == {1, 2}
TrackerTypes == {"VIDEO_FORMAT", "COLOR", "AUDIO_FORMAT"}
TrackerMessages == [type : TrackerTypes, id : StreamIds, body : {1, 2}]

\* what the callback of tracker_iterate_state returns
CallbackRets == {0, EINVAL}

\* calloc(1, sizeof(struct tracker_video_s)), lines 109 and 129: every
\* field is zero, the id included
tracker_video_new == [id |-> 0, flags |-> {}, format |-> 0, color |-> 0]
tracker_audio_new == [id |-> 0, flags |-> {}, format |-> 0]

\* lines 100-106, 120-126: the first entry of the list whose id is id, or 0
tracker_find(streams, id) ==
  IF \E i \in 1..Len(streams) : streams[i].id = id
  THEN CHOOSE i \in 1..Len(streams) :
         /\ streams[i].id = id
         /\ \A j \in 1..(i - 1) : streams[j].id # id
  ELSE 0

\* lines 98-116: the entry found, or a new one linked at the head
tracker_get_video_stream(streams, id) ==
  LET i == tracker_find(streams, id)
  IN IF i # 0 THEN [streams |-> streams, at |-> i]
     ELSE [streams |-> <<tracker_video_new>> \o streams, at |-> 1]

\* lines 118-136
tracker_get_audio_stream(streams, id) ==
  LET i == tracker_find(streams, id)
  IN IF i # 0 THEN [streams |-> streams, at |-> i]
     ELSE [streams |-> <<tracker_audio_new>> \o streams, at |-> 1]

\* lines 139-160
tracker_submit(message) ==
  /\ tracker.pc = "idle"
  /\ Len(tracker.submitted) < MaxSubmits
  /\ LET body == [id |-> message.id, body |-> message.body]
         tr == [tracker EXCEPT !.submitted = Append(@, message),
                               !.passes = 0, !.prev = <<>>, !.prev_ret = 0]
     IN tracker' =
          CASE message.type = "VIDEO_FORMAT" ->
                 LET r == tracker_get_video_stream(tracker.video_streams,
                                                   message.id)
                 IN [tr EXCEPT !.video_streams =
                       [r.streams EXCEPT ![r.at].format = body,
                                         ![r.at].flags = @ \cup {"FORMAT"}]]
            [] message.type = "AUDIO_FORMAT" ->
                 LET r == tracker_get_audio_stream(tracker.audio_streams,
                                                   message.id)
                 IN [tr EXCEPT !.audio_streams =
                       [r.streams EXCEPT ![r.at].format = body,
                                         ![r.at].flags = @ \cup {"FORMAT"}]]
            [] message.type = "COLOR" ->
                 LET r == tracker_get_video_stream(tracker.video_streams,
                                                   message.id)
                 IN [tr EXCEPT !.video_streams =
                       [r.streams EXCEPT ![r.at].color = body,
                                         ![r.at].flags = @ \cup {"COLOR"}]]
  /\ UNCHANGED <<pc, loc, call>>
  /\ UNCHANGED compVars
  /\ UNCHANGED <<clock, xgeom, xgamma, gl_ext, gl_map_ok, ps, glc_state,
                 shared_drawable, sched, scale, info>>

\* a step of tracker_iterate_state
TrackerStep(tr) ==
  /\ tracker' = tr
  /\ UNCHANGED <<pc, loc, call>>
  /\ UNCHANGED compVars
  /\ UNCHANGED <<clock, xgeom, xgamma, gl_ext, gl_map_ok, ps, glc_state,
                 shared_drawable, sched, scale, info>>

\* the pass goes on whatever the callback returns (not the code)
tracker_callback_continue(tr, type, message, r, next, cur) ==
  [tr EXCEPT !.out = Append(@, [type |-> type, id |-> message.id,
                                body |-> message.body, ret |-> r]),
             !.pc = next, !.cur = cur]

\* lines 173-175, 180-182, 191-193: the callback is given the message and
\* returns r; a non-zero r ends the pass, which returns r
tracker_callback(tr, type, message, r, next, cur) ==
  LET called == [tr EXCEPT !.out = Append(@, [type |-> type,
                                              id |-> message.id,
                                              body |-> message.body,
                                              ret |-> r])]
  IN IF r # 0
     THEN [called EXCEPT !.pc = "idle", !.ret = r]
     ELSE [called EXCEPT !.pc = next, !.cur = cur]

\* the pass takes the first video stream out of the list (not the code)
tracker_iterate_state_consume ==
  /\ tracker.pc = "idle"
  /\ tracker.passes < MaxPasses
  /\ TrackerStep([tracker EXCEPT !.pc = "video_format", !.cur = 1,
                                 !.ret = 0, !.out = <<>>,
                                 !.seen = Len(tracker.submitted),
                                 !.passes = @ + 1,
                                 !.prev = tracker.out,
                                 !.prev_ret = tracker.ret,
                                 !.video_streams =
                                   IF @ = <<>> THEN @ ELSE Tail(@)])

\* lines 165-167: the pass starts at the heads of the lists
tracker_iterate_state ==
  /\ tracker.pc = "idle"
  /\ tracker.passes < MaxPasses
  /\ TrackerStep([tracker EXCEPT !.pc = "video_format", !.cur = 1,
                                 !.ret = 0, !.out = <<>>,
                                 !.seen = Len(tracker.submitted),
                                 !.passes = @ + 1,
                                 !.prev = tracker.out,
                                 !.prev_ret = tracker.ret])

\* lines 170-176
iterate_video_format ==
  /\ tracker.pc = "video_format"
  /\ LET vs == tracker.video_streams
         cur == tracker.cur
     IN IF cur > Len(vs)
        THEN TrackerStep([tracker EXCEPT !.pc = "audio_format", !.cur = 1])
        ELSE IF "FORMAT" \in vs[cur].flags
        THEN \E r \in CallbackRets :
               TrackerStep(tracker_callback(tracker, "VIDEO_FORMAT",
                                            vs[cur].format, r,
                                            "video_color", cur))
        ELSE TrackerStep([tracker EXCEPT !.pc = "video_color"])

\* lines 178-185
iterate_video_color ==
  /\ tracker.pc = "video_color"
  /\ LET vs == tracker.video_streams
         cur == tracker.cur
     IN IF "COLOR" \in vs[cur].flags
        THEN \E r \in CallbackRets :
               TrackerStep(tracker_callback(tracker, "COLOR", vs[cur].color, r,
                                            "video_format", cur + 1))
        ELSE TrackerStep([tracker EXCEPT !.pc = "video_format",
                                         !.cur = cur + 1])

\* lines 188-200
iterate_audio_format ==
  /\ tracker.pc = "audio_format"
  /\ LET as == tracker.audio_streams
         cur == tracker.cur
     IN IF cur > Len(as)
        THEN TrackerStep([tracker EXCEPT !.pc = "idle"])
        ELSE IF "FORMAT" \in as[cur].flags
        THEN \E r \in CallbackRets :
               TrackerStep(tracker_callback(tracker, "AUDIO_FORMAT",
                                            as[cur].format, r,
                                            "audio_format", cur + 1))
        ELSE TrackerStep([tracker EXCEPT !.cur = cur + 1])

(***************************************************************************)
(* Single-precision arithmetic of the scaler (core/scale.c): a float is    *)
(* m * 2^e with m = 0 or 2^23 <= |m| < 2^24, and every operation rounds    *)
(* its exact result to the nearest float, ties to the even mantissa.       *)
(***************************************************************************)
FLT_MANT_DIG == 24

float_zero == [m |-> 0, e |-> 0]

\* the number of binary digits of n > 0
BitLen(n) == CHOOSE k \in 1..31 : n \div (2 ^ (k - 1)) = 1

\* the float nearest to n * 2^e
float_round(n, e) ==
  IF n = 0 THEN float_zero
  ELSE LET a == IF n < 0 THEN -n ELSE n
           sg == IF n < 0 THEN -1 ELSE 1
           k == BitLen(a) - FLT_MANT_DIG
       IN IF k <= 0
          THEN [m |-> sg * a * (2 ^ (-k)), e |-> e + k]
          ELSE LET q == a \div (2 ^ k)
                   rem == a % (2 ^ k)
                   half == 2 ^ (k - 1)
                   up == rem > half \/ (rem = half /\ q % 2 = 1)
                   r == IF up THEN q + 1 ELSE q
               IN IF r = 2 ^ FLT_MANT_DIG
                  THEN [m |-> sg * (2 ^ (FLT_MANT_DIG - 1)), e |-> e + k + 1]
                  ELSE [m |-> sg * r, e |-> e + k]

\* (float) n of an unsigned n
float_of_uint(n) == float_round(n, 0)

float_neg(a) == [m |-> -a.m, e |-> a.e]

\* a + b.  The operand of the larger exponent is x; when the exponents are
\* far apart the bits of y below the guard digits are kept as one sticky
\* digit
float_add(a, b) ==
  IF a.m = 0 THEN b
  ELSE IF b.m = 0 THEN a
  ELSE LET x == IF a.e >= b.e THEN a ELSE b
           y == IF a.e >= b.e THEN b ELSE a
           dlt == x.e - y.e
       IN IF dlt <= 6
          THEN float_round(x.m * (2 ^ dlt) + y.m, y.e)
          ELSE LET s == dlt - 5
                   ym == IF y.m < 0 THEN -y.m ELSE y.m
                   xm == (IF x.m < 0 THEN -x.m ELSE x.m) * 32
                   q == IF s > FLT_MANT_DIG THEN 0 ELSE ym \div (2 ^ s)
                   rem == IF s > FLT_MANT_DIG THEN ym ELSE ym % (2 ^ s)
                   same == (x.m < 0) = (y.m < 0)
                   sg == IF x.m < 0 THEN -1 ELSE 1
                   n == IF same THEN xm + q ELSE xm - q
               IN IF rem = 0
                  THEN float_round(sg * n, x.e - 5)
                  ELSE IF same
                  THEN float_round(sg * (2 * n + 1), x.e - 6)
                  ELSE float_round(sg * (2 * (n - 1) + 1), x.e - 6)

float_sub(a, b) == float_add(a, float_neg(b))

\* a * b: the 48-digit product of the mantissas is hi * 2^24 + lo
float_mul(a, b) ==
  IF a.m = 0 \/ b.m = 0 THEN float_zero
  ELSE LET am == IF a.m < 0 THEN -a.m ELSE a.m
           bm == IF b.m < 0 THEN -b.m ELSE b.m
           sg == IF (a.m < 0) = (b.m < 0) THEN 1 ELSE -1
           ah == am \div 4096
           al == am % 4096
           bh == bm \div 4096
           bl == bm % 4096
           mid == ah * bl + al * bh
           low == al * bl + (mid % 4096) * 4096
           hi == ah * bh + mid \div 4096 + low \div (2 ^ 24)
           lo == low % (2 ^ 24)
           big == hi >= 2 ^ 23
           q == IF big THEN hi ELSE 2 * hi + lo \div (2 ^ 23)
           rem == IF big THEN lo ELSE lo % (2 ^ 23)
           half == IF big THEN 2 ^ 23 ELSE 2 ^ 22
           sh == IF big THEN 24 ELSE 23
           up == rem > half \/ (rem = half /\ q % 2 = 1)
           r == IF up THEN q + 1 ELSE q
       IN IF r = 2 ^ FLT_MANT_DIG
          THEN [m |-> sg * (2 ^ 23), e |-> a.e + b.e + sh + 1]
          ELSE [m |-> sg * r, e |-> a.e + b.e + sh]

\* (float) n / (float) d of unsigned n and d > 0, both below 2^6
float_div_uint(n, d) ==
  IF n = 0 THEN float_zero
  ELSE LET k == CHOOSE j \in 0..30 :
                  (n * (2 ^ j)) \div d >= 2 ^ 23 /\ (n * (2 ^ j)) \div d < 2 ^ 24
           q == (n * (2 ^ k)) \div d
           rem == (n * (2 ^ k)) % d
           up == 2 * rem > d \/ (2 * rem = d /\ q % 2 = 1)
           r == IF up THEN q + 1 ELSE q
       IN IF r = 2 ^ FLT_MANT_DIG
          THEN [m |-> 2 ^ 23, e |-> 1 - k]
          ELSE [m |-> r, e |-> -k]

\* (unsigned int) a of a float a >= 0: the fraction is discarded
float_to_uint(a) ==
  IF a.e >= 0 THEN a.m * (2 ^ a.e)
  ELSE IF -a.e > FLT_MANT_DIG THEN 0
  ELSE a.m \div (2 ^ (-a.e))

\* a > n for an unsigned n, compared as doubles
float_gt_uint(a, n) ==
  IF a.m <= 0 THEN FALSE
  ELSE IF a.e >= 0 THEN a.m * (2 ^ a.e) > n
  ELSE IF -a.e > FLT_MANT_DIG THEN n = 0
  ELSE \/ a.m \div (2 ^ (-a.e)) > n
       \/ a.m \div (2 ^ (-a.e)) = n /\ a.m % (2 ^ (-a.e)) # 0

\* a < 0, a > 1 of a float
float_negative(a) == a.m < 0
float_above_one(a) == float_gt_uint(a, 1)

(***************************************************************************)
(* The software scaler (core/scale.c).                                     *)
(***************************************************************************)
GLC_PICTURE_HEADER_SIZE == 12
GLC_CTX_FLAGS == {"GLC_CTX_BGR", "GLC_CTX_BGRA", "GLC_CTX_DWORD_ALIGNED"}

\* glc->scale and ctx->scale are doubles; the model takes binary fractions
\* s[1] / s[2], for which the comparisons of lines 176, 194, 267 and 291 and
\* the products of lines 278-279 are exact
scale_is(s, n, d) == s[1] * d = n * s[2]

\* the product is rounded up (not the code)
scale_mul_uint_ceil(s, n) == (s[1] * n + s[2] - 1) \div s[2]

\* lines 278-279: (unsigned int) (scale * n), the fraction is discarded
scale_mul_uint(s, n) == (s[1] * n) \div s[2]

\* a picture as the capture wrote it under the format fmt: rows of w pixels
\* of 3 or 4 bytes, each row padded to 8 bytes when dword aligned
picture_bpp(fmt) == IF "GLC_CTX_BGRA" \in fmt.flags THEN 4 ELSE 3
picture_row(fmt) ==
  LET r == fmt.w * picture_bpp(fmt)
  IN IF "GLC_CTX_DWORD_ALIGNED" \in fmt.flags /\ r % 8 # 0
     THEN r + 8 - (r % 8)
     ELSE r
picture_size(fmt) == picture_row(fmt) * fmt.h

\* the pictures of the model: channel c of the pixel at (x, y)
Patterns == {"pixels", "grey", "ramp", "flat"}
pattern_byte(pat, x, y, c) ==
  CASE pat = "pixels" ->
         IF c = 3 THEN (IF x % 2 = 0 THEN 255 ELSE 128)
         ELSE (10 + 30 * x + 10 * c + 70 * y) % 256
    [] pat = "grey" -> IF c = 3 THEN 255 ELSE (10 * (x + 2 * y)) % 256
    [] pat = "ramp" -> IF c = 3 THEN 255 ELSE (60 * x) % 256
    [] pat = "flat" -> 255

\* from[off] of a picture message: a byte past the end of the packet is
\* whatever lies there (junk), a padding byte is 238
picture_byte(pic, off, junk) ==
  LET row == picture_row(pic.fmt)
      bpp == picture_bpp(pic.fmt)
      i == off % row
  IN IF off >= picture_size(pic.fmt) THEN junk
     ELSE IF i >= pic.fmt.w * bpp THEN 238
     ELSE pattern_byte(pic.pat, i \div bpp, off \div row, i % bpp)

picture_data(pic) ==
  [j \in 1..picture_size(pic.fmt) |-> picture_byte(pic, j - 1, 0)]

\* lines 156-162: memset to zero, then the id; update counts the read locks
\* held on the rwlock, and an empty pos or factor is a null pointer
scale_ctx_new(ctx_i) ==
  [ctx |-> ctx_i, flags |-> {}, w |-> 0, h |-> 0, sw |-> 0, sh |-> 0,
   bpp |-> 0, row |-> 0, scale |-> <<0, 1>>, process |-> 0,
   pos |-> <<>>, factor |-> <<>>, update |-> 0]

\* lines 147-153: the place in the list of the ctx of a stream, or 0
scale_find(list, ctx_i) ==
  IF \E i \in 1..Len(list) : list[i].ctx = ctx_i
  THEN CHOOSE i \in 1..Len(list) : list[i].ctx = ctx_i
  ELSE 0

\* lines 145-167: the list with a ctx for the stream in it
scale_get_ctx(list, ctx_i) ==
  IF scale_find(list, ctx_i) # 0 THEN list
  ELSE <<scale_ctx_new(ctx_i)>> \o list

\* the scaling parameters of a ctx
scale_params(c) ==
  <<c.flags, c.w, c.h, c.sw, c.sh, c.bpp, c.row, c.scale, c.pos, c.factor>>

\* ofx after n additions of d (lines 316, 340, 342-343)
RECURSIVE float_accum(_, _)
float_accum(d, n) ==
  IF n = 0 THEN float_zero ELSE float_add(float_accum(d, n - 1), d)

float_one == float_of_uint(1)

\* the ratio with one column more than needed left out (not the code)
scale_ratio_skip(c, r) ==
  [r |-> r + 1, d |-> float_div_uint(c.w - (r + 1), c.sw)]

\* lines 309-314: r counts up from 0 until d * (sh - 1) + 1.0 <= h and
\* d * (sw - 1) + 1.0 <= w; the sums are sums of doubles, which are exact
RECURSIVE scale_ratio(_, _)
scale_ratio(c, r) ==
  LET d == float_div_uint(c.w - r, c.sw)
  IN IF \/ float_gt_uint(float_mul(d, float_of_uint(c.sh - 1)), c.h - 1)
        \/ float_gt_uint(float_mul(d, float_of_uint(c.sw - 1)), c.w - 1)
     THEN scale_ratio(c, r + 1)
     ELSE [r |-> r, d |-> d]

\* lines 321-328: pos[tp + k] of the target pixel p = x + y * sw, kept at
\* 4 * p + k + 1
scale_map_pos(c, d) ==
  [i \in 1..(4 * c.sw * c.sh) |->
     LET k == (i - 1) % 4
         p == (i - 1) \div 4
         ix == float_to_uint(float_accum(d, p % c.sw))
         iy == float_to_uint(float_accum(d, p \div c.sw))
     IN (ix + (k % 2)) * c.bpp + (iy + (k \div 2)) * c.row]

\* lines 330-338: fx0 = 1.0 - fx1 is a difference of doubles rounded to
\* float, which is the float nearest to the exact difference
scale_map_factor(c, d) ==
  [i \in 1..(4 * c.sw * c.sh) |->
     LET k == (i - 1) % 4
         p == (i - 1) \div 4
         x == p % c.sw
         y == p \div c.sw
         ix == float_to_uint(float_accum(d, x))
         iy == float_to_uint(float_accum(d, y))
         fx1 == float_sub(float_mul(float_of_uint(x), d), float_of_uint(ix))
         fx0 == float_sub(float_one, fx1)
         fy1 == float_sub(float_mul(float_of_uint(y), d), float_of_uint(iy))
         fy0 == float_sub(float_one, fy1)
     IN float_mul(IF k % 2 = 0 THEN fx0 ELSE fx1,
                  IF k \div 2 = 0 THEN fy0 ELSE fy1)]

\* the rows of the source are taken as packed, aligned or not (not the code)
scale_row_packed(c, ctx_msg) == c.w * c.bpp

\* lines 280-284: the bytes of a row of the source
scale_row(c, ctx_msg) ==
  LET row == c.w * c.bpp
  IN IF "GLC_CTX_DWORD_ALIGNED" \in ctx_msg.flags /\ row % 8 # 0
     THEN row + 8 - (row % 8)
     ELSE row

\* lines 276-347, with the flags of the message as lines 263-274 left them
scale_ctx_setup(c, ctx_msg, glc_scale) ==
  LET c1 == [c EXCEPT !.process = 1,
                      !.scale = glc_scale,
                      !.sw = scale_mul_uint(glc_scale, c.w),
                      !.sh = scale_mul_uint(glc_scale, c.h),
                      !.row = scale_row(c, ctx_msg)]
      msg == [ctx_msg EXCEPT !.flags = @ \ {"GLC_CTX_DWORD_ALIGNED"},
                             !.w = c1.sw, !.h = c1.sh]
  IN IF scale_is(c1.scale, 1, 2) \/ scale_is(c1.scale, 1, 1)
     THEN [ctx |-> c1, msg |-> msg]
     ELSE LET d == scale_ratio(c1, 0).d
          IN [ctx |-> [c1 EXCEPT !.pos = scale_map_pos(c1, d),
                                 !.factor = scale_map_factor(c1, d)],
              msg |-> msg]

\* lines 259-274 and on: the ctx after the message, and the message as it
\* is forwarded
scale_ctx_msg(c, ctx_msg, glc_scale) ==
  LET c1 == [c EXCEPT !.flags = ctx_msg.flags,
                      !.w = ctx_msg.w, !.h = ctx_msg.h]
  IN IF "GLC_CTX_BGRA" \in ctx_msg.flags
     THEN scale_ctx_setup([c1 EXCEPT !.bpp = 4],
                          [ctx_msg EXCEPT !.flags = (@ \ {"GLC_CTX_BGR"})
                                                    \cup {"GLC_CTX_BGR"}],
                          glc_scale)
     ELSE IF scale_is(glc_scale, 1, 1) /\ "GLC_CTX_BGR" \in c1.flags
     THEN [ctx |-> [c1 EXCEPT !.sw = c1.w, !.sh = c1.h, !.scale = <<1, 1>>],
           msg |-> ctx_msg]
     ELSE IF "GLC_CTX_BGR" \in ctx_msg.flags
     THEN scale_ctx_setup([c1 EXCEPT !.bpp = 3], ctx_msg, glc_scale)
     ELSE scale_ctx_setup(c1, ctx_msg, glc_scale)

\* the conversion of a float above -1 and below 256 to unsigned char
float_to_uchar(a) == IF a.m < 0 THEN 0 ELSE float_to_uint(a) % 256

\* lines 227-241: channel ch of the target pixel p
scale_pic_pixel(c, pic, junk, p, ch) ==
  LET tap(k) == float_mul(float_of_uint(picture_byte(pic,
                                                     c.pos[4 * p + k + 1] + ch,
                                                     junk)),
                          c.factor[4 * p + k + 1])
  IN float_to_uchar(float_add(float_add(float_add(tap(0), tap(1)), tap(2)),
                              tap(3)))

\* lines 179-184: channel ch of the target pixel (x, y), BGRA to BGR
scale_pic_copy(c, pic, junk, x, y, ch) ==
  picture_byte(pic, x * c.bpp + y * c.row + ch, junk)

\* the mean of the upper two pixels of the block (not the code)
scale_pic_half_upper(c, pic, junk, x, y, ch) ==
  LET op1 == 2 * x * c.bpp + 2 * y * c.row
  IN (picture_byte(pic, op1 + ch, junk)
      + picture_byte(pic, op1 + c.bpp + ch, junk)) \div 2

\* lines 197-215: channel ch of the target pixel (x, y) at scale 0.5
scale_pic_half(c, pic, junk, x, y, ch) ==
  LET op1 == 2 * x * c.bpp + 2 * y * c.row
      op2 == op1 + c.bpp
      op3 == op1 + c.row
      op4 == op2 + c.row
  IN (picture_byte(pic, op1 + ch, junk) + picture_byte(pic, op2 + ch, junk)
      + picture_byte(pic, op3 + ch, junk)
      + picture_byte(pic, op4 + ch, junk)) \div 4

\* lines 169-246: the bytes written to the n bytes of to[], -1 for a byte
\* that is not written; crash when the loop of line 225 reads pos[] through
\* a null pointer or past its end
scale_pic_msg(c, swi, shi, pic, junk, n) ==
  LET copy == scale_is(c.scale, 1, 1) /\ "GLC_CTX_BGRA" \in c.flags
      half == scale_is(c.scale, 1, 2)
  IN IF ~copy /\ ~half /\ c.sw * c.sh > 0 /\ Len(c.pos) < 4 * c.sw * c.sh
     THEN [crash |-> TRUE, data |-> <<>>]
     ELSE [crash |-> FALSE,
           data |->
             [j \in 1..n |->
                LET p == (j - 1) \div 3
                    ch == (j - 1) % 3
                    x == IF c.sw = 0 THEN 0 ELSE p % c.sw
                    y == IF c.sw = 0 THEN 0 ELSE p \div c.sw
                IN IF copy
                   THEN IF 3 * x < swi /\ 3 * y < shi
                        THEN scale_pic_copy(c, pic, junk, x, y, ch)
                        ELSE -1
                   ELSE IF half
                   THEN IF 3 * x < swi /\ 3 * y < shi
                        THEN scale_pic_half(c, pic, junk, x, y, ch)
                        ELSE -1
                   ELSE IF p < c.sw * c.sh
                   THEN scale_pic_pixel(c, pic, junk, p, ch)
                   ELSE -1]]

\* whether scale_pic_msg reads from[] past the end of the picture
scale_pic_reads(c, pic) ==
  IF scale_is(c.scale, 1, 1) /\ "GLC_CTX_BGRA" \in c.flags
  THEN {x * c.bpp + y * c.row + ch :
          x \in 0..(c.sw - 1), y \in 0..(c.sh - 1), ch \in 0..2}
  ELSE IF scale_is(c.scale, 1, 2)
  THEN {(2 * x + i) * c.bpp + (2 * y + j) * c.row + ch :
          x \in 0..(c.sw - 1), y \in 0..(c.sh - 1), ch \in 0..2,
          i \in 0..1, j \in 0..1}
  ELSE {c.pos[i] + ch : i \in 1..Len(c.pos), ch \in 0..2}

\* pthread_rwlock_wrlock returns once no read lock is held; it returns at
\* once, whoever holds the lock (not the code)
rwlock_wrlock_nowait(c) == TRUE

\* pthread_rwlock_wrlock(&ctx->update), line 257
rwlock_wrlock(c) == c.update = 0

\* a step of a thread of the scaler
ScaleStep(s) ==
  /\ scale' = s
  /\ UNCHANGED <<pc, loc, call>>
  /\ UNCHANGED compVars
  /\ UNCHANGED <<clock, xgeom, xgamma, gl_ext, gl_map_ok, ps, glc_state,
                 shared_drawable, sched, tracker, info>>

\* a thread of the pool takes the next packet of the input; it holds the
\* mutex that keeps the packets in order until its output packet is open.
\* A picture has the format of the last format message of its stream (fmt);
\* orig keeps the format message as it was read
scale_thread_read(t, m) ==
  /\ ~scale.crashed
  /\ scale.thread[t].pc = "idle"
  /\ scale.open = 0
  /\ scale.from < MaxScalePackets
  /\ m.type = "PICTURE" => scale.sent[m.ctx] # NoFormat
  /\ ScaleStep([scale EXCEPT
       !.open = t,
       !.from = @ + 1,
       !.sent = IF m.type = "CTX"
                THEN [@ EXCEPT ![m.ctx] = [flags |-> m.flags, w |-> m.w,
                                           h |-> m.h]]
                ELSE @,
       !.thread[t] = [@ EXCEPT !.pc = "read_callback",
                               !.msg = IF m.type = "PICTURE"
                                       THEN [m EXCEPT
                                               !.fmt = scale.sent[m.ctx]]
                                       ELSE IF m.type = "CTX"
                                       THEN [m EXCEPT
                                               !.orig = [flags |-> m.flags,
                                                         w |-> m.w,
                                                         h |-> m.h]]
                                       ELSE m]])

\* the packet is copied to the output (GLC_THREAD_COPY, lines 124 and 128)
scale_thread_copy(s, t, m) ==
  [s EXCEPT !.to = Append(@, m), !.open = 0, !.thread[t] = scale_thread_idle]

\* lines 106-131
scale_read_callback(t) ==
  /\ ~scale.crashed
  /\ scale.thread[t].pc = "read_callback"
  /\ LET m == scale.thread[t].msg
     IN IF m.type = "CTX"
        THEN LET list == scale_get_ctx(scale.ctx, m.ctx)
                 i == scale_find(list, m.ctx)
                 r == scale_ctx_msg(list[i], m, scale.glc_scale)
             IN /\ rwlock_wrlock(list[i])
                /\ ScaleStep(scale_thread_copy(
                     [scale EXCEPT !.ctx = [list EXCEPT ![i] = r.ctx]],
                     t, r.msg))
        ELSE IF m.type = "PICTURE"
        THEN LET list == scale_get_ctx(scale.ctx, m.ctx)
                 i == scale_find(list, m.ctx)
                 c == list[i]
             IN IF c.process # 0
                THEN ScaleStep([scale EXCEPT
                       !.ctx = [list EXCEPT ![i].update = @ + 1],
                       !.to = Append(@, [type |-> "PICTURE", ctx |-> m.ctx,
                                         size |-> c.sw * c.sh * 3
                                                  + GLC_PICTURE_HEADER_SIZE,
                                         data |-> <<>>, done |-> FALSE,
                                         pic |-> m, by |-> scale_params(c)]),
                       !.open = 0,
                       !.thread[t] = [@ EXCEPT !.pc = "write_callback",
                                               !.threadptr = m.ctx,
                                               !.slot = Len(scale.to) + 1]])
                ELSE ScaleStep(scale_thread_copy(
                       [scale EXCEPT !.ctx = list], t,
                       [type |-> "PICTURE", ctx |-> m.ctx,
                        size |-> picture_size(m.fmt)
                                 + GLC_PICTURE_HEADER_SIZE,
                        data |-> picture_data(m), done |-> TRUE,
                        pic |-> m, by |-> <<>>]))
        ELSE ScaleStep(scale_thread_copy(scale, t, m))

\* lines 133-140 and 172-174: the header is copied and scale_pic_msg is
\* entered
scale_write_callback(t) ==
  /\ ~scale.crashed
  /\ scale.thread[t].pc = "write_callback"
  /\ LET c == scale.ctx[scale_find(scale.ctx, scale.thread[t].threadptr)]
     IN ScaleStep([scale EXCEPT !.thread[t] =
                     [@ EXCEPT !.pc = "scale_pic_msg",
                               !.swi = c.sw * 3, !.shi = c.sh * 3]])

\* lines 176-245 and 141: the loops of scale_pic_msg, then the read lock is
\* released
scale_pic_msg_loop(t) ==
  /\ ~scale.crashed
  /\ scale.thread[t].pc = "scale_pic_msg"
  /\ LET th == scale.thread[t]
         i == scale_find(scale.ctx, th.threadptr)
         slot == scale.to[th.slot]
     IN \E junk \in {0, 255} :
          LET r == scale_pic_msg(scale.ctx[i], th.swi, th.shi, slot.pic, junk,
                                 slot.size - GLC_PICTURE_HEADER_SIZE)
          IN IF r.crash
             THEN ScaleStep([scale EXCEPT !.crashed = TRUE])
             ELSE ScaleStep([scale EXCEPT
                    !.to[th.slot] = [@ EXCEPT !.data = r.data,
                                              !.done = TRUE],
                    !.ctx[i].update = @ - 1,
                    !.thread[t] = scale_thread_idle])

(***************************************************************************)
(* The info sink (glc/core/info.c).                                        *)
(***************************************************************************)
GLC_VIDEO_YCBCR_420JPEG == 3
INFO_FPS == 3
SECOND == 1000000000

\* the index of the stream id in a list, 0 when it is not there (lines
\* 244-250 and 269-275)
info_find(list, id) ==
  IF \E i \in 1..Len(list) : list[i].id = id
  THEN CHOOSE i \in 1..Len(list) :
         list[i].id = id /\ \A j \in 1..(i - 1) : list[j].id # id
  ELSE 0

\* lines 252-259: calloc, and the new stream becomes the head of the list
info_video_stream_new(id) ==
  [id |-> id, flags |-> {}, format |-> 0, w |-> 0, h |-> 0, pictures |-> 0,
   bytes |-> 0, fps |-> 0, last_fps_time |-> 0, fps_time |-> 0]

info_get_video_stream(list, id) ==
  IF info_find(list, id) # 0 THEN list
  ELSE <<info_video_stream_new(id)>> \o list

\* lines 277-283
info_get_audio_stream(list, id) ==
  IF info_find(list, id) # 0 THEN list
  ELSE <<[id |-> id, packets |-> 0, bytes |-> 0]>> \o list

\* lines 297-306; what is printed is not modelled
video_format_info(i, format_message) ==
  LET list == info_get_video_stream(i.video_list, format_message.id)
      k == info_find(list, format_message.id)
  IN [i EXCEPT !.video_list =
        [list EXCEPT ![k] = [@ EXCEPT !.w = format_message.width,
                                      !.h = format_message.height,
                                      !.flags = format_message.flags,
                                      !.format = format_message.format]]]

\* lines 358-367: what one picture adds to video->bytes
video_frame_bytes(v) ==
  IF v.format = GLC_VIDEO_BGR
  THEN u32(v.w * v.h * 3)
       + (IF "DWORD_ALIGNED" \in v.flags
          THEN u32(v.h * u32(8 - (u32(v.w * 3) % 8))) ELSE 0)
  ELSE IF v.format = GLC_VIDEO_BGRA
  THEN u32(v.w * v.h * 4)
       + (IF "DWORD_ALIGNED" \in v.flags
          THEN u32(v.h * u32(8 - (u32(v.w * 4) % 8))) ELSE 0)
  ELSE IF v.format = GLC_VIDEO_YCBCR_420JPEG
  THEN u32(v.w * v.h * 3) \div 2
  ELSE 0

\* lines 336-377.  fps_time is a multiple of 1000000000 and is kept in
\* seconds; time - fps_time is a difference of unsigned 64-bit numbers: it
\* wraps to a large number when time is below fps_time
video_frame_info(i, pic_header) ==
  LET list == info_get_video_stream(i.video_list, pic_header.id)
      k == info_find(list, pic_header.id)
      v == [list[k] EXCEPT !.pictures = @ + 1,
                           !.fps = @ + 1,
                           !.bytes = @ + video_frame_bytes(list[k])]
      second == \/ pic_header.time \div SECOND < v.fps_time
                \/ pic_header.time \div SECOND >= v.fps_time + 1
      v2 == IF i.level >= INFO_FPS /\ second
            THEN [v EXCEPT !.last_fps_time = pic_header.time,
                           !.fps_time = @ + 1,
                           !.fps = 0]
            ELSE v
  IN [i EXCEPT !.time = pic_header.time,
               !.video_list = [list EXCEPT ![k] = v2]]

\* lines 411-418
audio_data_info(i, audio_header) ==
  LET list == info_get_audio_stream(i.audio_list, audio_header.id)
      k == info_find(list, audio_header.id)
  IN [i EXCEPT !.time = audio_header.time,
               !.audio_list = [list EXCEPT ![k] =
                  [@ EXCEPT !.packets = @ + 1,
                            !.bytes = @ + audio_header.size]]]

\* lines 216-240: the other messages are printed only
info_read_callback(i, m) ==
  IF m.type = "VIDEO_FORMAT" THEN video_format_info(i, m)
  ELSE IF m.type = "VIDEO_FRAME" THEN video_frame_info(i, m)
  ELSE IF m.type = "AUDIO_DATA" THEN audio_data_info(i, m)
  ELSE i

\* one entry of the summary (lines 187-194 and 203-210): the count, the
\* bytes and bytes / (time / 1000000000), a division of integers
info_summary(kind, s, time) ==
  [kind |-> kind, id |-> s.id,
   count |-> IF kind = "video" THEN s.pictures ELSE s.packets,
   bytes |-> s.bytes,
   bps |-> IF time \div SECOND = 0 THEN 0 ELSE s.bytes \div (time \div SECOND)]

\* lines 173-214.  With time below one second the divisor of lines 194 and
\* 210 is 0 and the division is undefined: it traps (SIGFPE) in the first
\* stream, whose entry was unlinked at line 185 or 201, or it gives some
\* number and the loop goes on
info_finish_callback(i, trap) ==
  IF i.time \div SECOND = 0 /\ trap
     /\ Len(i.video_list) + Len(i.audio_list) > 0
  THEN [i EXCEPT !.crashed = TRUE,
                 !.video_list = IF @ # <<>> THEN Tail(@) ELSE @,
                 !.audio_list = IF i.video_list = <<>> THEN Tail(@) ELSE @]
  ELSE [i EXCEPT !.video_list = <<>>, !.audio_list = <<>>,
                 !.report = [k \in 1..Len(i.video_list) |->
                               info_summary("video", i.video_list[k], i.time)]
                            \o [k \in 1..Len(i.audio_list) |->
                                  info_summary("audio", i.audio_list[k],
                                               i.time)]]

InfoStep(i) ==
  /\ info' = i
  /\ UNCHANGED <<pc, loc, call>>
  /\ UNCHANGED compVars
  /\ UNCHANGED <<clock, xgeom, xgamma, gl_ext, gl_map_ok, ps, glc_state,
                 shared_drawable, sched, tracker, scale>>

\* info_set_level, lines 134-141
info_set_level(level) ==
  /\ ~info.crashed
  /\ InfoStep(IF level < 1
              THEN [info EXCEPT !.op = "set_level", !.ret = EINVAL]
              ELSE [info EXCEPT !.op = "set_level", !.ret = 0,
                                !.level = level])

\* the thread is started whatever running is (not the code)
info_process_start_again(ret) ==
  /\ ~info.crashed
  /\ ret = 0 => info.threads < MaxInfoThreads
  /\ InfoStep(IF ret # 0
              THEN [info EXCEPT !.op = "start", !.ret = ret]
              ELSE [info EXCEPT !.op = "start", !.ret = 0, !.running = 1,
                                !.thread = "reading", !.threads = @ + 1,
                                !.log = <<>>, !.report = <<>>])

\* info_process_start, lines 149-160: glc_thread_create returns 0 and has
\* started the thread, or it returns an error
info_process_start(ret) ==
  /\ ~info.crashed
  /\ (info.running = 0 /\ ret = 0) => info.threads < MaxInfoThreads
  /\ InfoStep(IF info.running # 0
              THEN [info EXCEPT !.op = "start", !.ret = EAGAIN]
              ELSE IF ret # 0
              THEN [info EXCEPT !.op = "start", !.ret = ret]
              ELSE [info EXCEPT !.op = "start", !.ret = 0, !.running = 1,
                                !.thread = "reading", !.threads = @ + 1,
                                !.log = <<>>, !.report = <<>>])

\* info_process_wait, lines 162-171: glc_thread_wait returns when the
\* thread has ended
info_process_wait ==
  /\ ~info.crashed
  /\ info.running # 0 => info.thread = "done"
  /\ InfoStep(IF info.running = 0
              THEN [info EXCEPT !.op = "wait", !.ret = EAGAIN]
              ELSE [info EXCEPT !.op = "wait", !.ret = 0, !.running = 0,
                                !.thread = "none"])

\* the thread of the sink reads the next message of its input and calls
\* the read callback; the close message is the last one it reads
info_thread_read(m) ==
  /\ ~info.crashed
  /\ info.thread = "reading"
  /\ Len(info.log) < MaxInfoMessages
  /\ InfoStep([info_read_callback(info, m) EXCEPT
                 !.log = Append(@, m),
                 !.thread = IF m.type = "CLOSE" THEN "closing" ELSE @])

\* the thread ends, after the close message or when its input is
\* cancelled, and calls the finish callback
info_thread_finish ==
  /\ ~info.crashed
  /\ info.thread \in {"reading", "closing"}
  /\ \E trap \in BOOLEAN :
       LET i == info_finish_callback(info, trap)
       IN InfoStep([i EXCEPT !.thread = IF i.crashed THEN @ ELSE "done"])

(***************************************************************************)
(* Specifications.                                                         *)
(***************************************************************************)
\* the steps of a frame() call and of the gl_capture_stop it may run
FrameStep(t) ==
  \/ frame_time(t)
  \/ update_video_stream(t)
  \/ update_pbo_lock(t)
  \/ update_pbo_store(t)
  \/ update_geometry(t)
  \/ write_video_format_message(t)
  \/ update_color(t)
  \/ frame_pbo_start(t)
  \/ frame_open(t)
  \/ frame_write(t)
  \/ frame_cancel(t)
  \/ frame_finish(t)
  \/ gl_capture_error(t)
  \/ gl_capture_error_cancel(t)

StopStep(t) ==
  \/ stop_lock(t)
  \/ stop_clear(t)
  \/ clear_video_streams(t)
  \/ clear_video_streams_next(t)
  \/ stop_return(t)

\* the configuration setters alone
NextConfig ==
  \/ \E b \in Buffers : gl_capture_set_buffer(b)
  \/ \E b \in ReadBuffers : gl_capture_set_read_buffer(b)
  \/ \E f \in FpsArgs : gl_capture_set_fps(f)
  \/ \E a \in PackAlignments : gl_capture_set_pack_alignment(a)
  \/ \E f \in PixelFormats : gl_capture_set_pixel_format(f)

SpecConfig == Init /\ [][NextConfig]_vars

\* the state after gl_capture_init and set_buffer(1), with the flags fl
Configured(fl) ==
  /\ gl = set_buffer(gl_capture_init, 1).gl
  /\ flags = fl
  /\ capture_spinlock = 0
  /\ mutex = 0
  /\ video = <<>>
  /\ pc = [t \in Threads |-> "idle"]
  /\ loc = [t \in Threads |-> NoLocals]
  /\ call = [t \in Threads |-> NoCall]
  /\ xgeom = [w \in Drawables |-> <<4, 2>>]
  /\ xgamma = gamma_one
  /\ gl_map_ok = TRUE
  /\ ps = ps_buffer_init
  /\ glc_state = "RUN"
  /\ tracker = tracker_init
  /\ scale = scale_init(<<1, 1>>)
  /\ info = info_init

\* start, stop and frame() on two threads, each thread with its own
\* drawable, after try_pbo(1)
InitStop ==
  /\ Configured({"TRY_PBO"})
  /\ clock = 4 * TICK_NS
  /\ gl_ext = TRUE
  /\ shared_drawable = FALSE
  /\ sched = <<>>

NextStop ==
  \/ gl_capture_start
  \/ gl_capture_start_store
  \/ gl_capture_stop
  \/ \E t \in FrameThreads : gl_capture_frame(t, t, MaxRaceFrames)
  \/ \E t \in FrameThreads : FrameStep(t)
  \/ \E t \in Threads : StopStep(t)

SpecStop == InitStop /\ [][NextStop]_vars

\* the steps of a frame() call that reads the pixels with glReadPixels
ReadPixelsStep(t) ==
  \/ frame_time(t)
  \/ update_video_stream(t)
  \/ update_geometry(t)
  \/ write_video_format_message(t)
  \/ update_color(t)
  \/ frame_pbo_start(t)
  \/ frame_open(t)
  \/ frame_write(t)
  \/ frame_finish(t)

\* start, stop and frame() without PBO: the render threads draw any
\* drawable, and the host may or may not draw one drawable from two threads
\* at once
InitSpec ==
  /\ Configured({})
  /\ clock = 4 * TICK_NS
  /\ gl_ext = FALSE
  /\ shared_drawable \in BOOLEAN
  /\ sched = <<>>

Next ==
  \/ gl_capture_start
  \/ gl_capture_start_store
  \/ gl_capture_stop
  \/ \E t \in FrameThreads, d \in Drawables :
       gl_capture_frame(t, d, MaxRaceFrames)
  \/ \E t \in FrameThreads : ReadPixelsStep(t)
  \/ StopStep(CTL)

Spec == InitSpec /\ [][Next]_vars

\* every public operation that touches the streams, with one render thread;
\* every thread that can take a step of its call eventually takes it
InitDrain ==
  /\ Configured({})
  /\ clock = 4 * TICK_NS
  /\ gl_ext = FALSE
  /\ shared_drawable = FALSE
  /\ sched = <<>>

NextDrain ==
  \/ gl_capture_start
  \/ gl_capture_start_store
  \/ gl_capture_stop
  \/ \E d \in Drawables, w \in Drawables : gl_capture_set_attribute_window(d, w)
  \/ gl_capture_refresh_color_correction
  \/ \E d \in Drawables : gl_capture_frame(1, d, MaxRaceFrames)
  \/ ReadPixelsStep(1)
  \/ StopStep(CTL)

SpecDrain ==
  /\ InitDrain
  /\ [][NextDrain]_vars
  /\ WF_vars(StopStep(CTL))
  /\ WF_vars(ReadPixelsStep(1))

\* one render thread and one drawable in default mode, without PBO: the
\* clock advances by ticks of 10 ms between the calls
InitPacing ==
  /\ Configured({})
  /\ clock \in {0, 4 * TICK_NS}
  /\ gl_ext = FALSE
  /\ shared_drawable = FALSE
  /\ sched = <<>>

NextPacing ==
  \/ gl_capture_start
  \/ gl_capture_start_store
  \/ gl_capture_frame(1, 1, MaxFrames)
  \/ ReadPixelsStep(1)
  \/ Tick(TICK_NS)

SpecPacing == InitPacing /\ [][NextPacing]_vars

\* the offsets of the planned frame() calls from the first, in ticks
PacingOffsets == <<0, 1, 4, 7>>

StartTimes == {k * TICK_NS : k \in 0..MaxStart}

\* a started component whose host calls frame() at t0, t0 + 10 ms,
\* t0 + 40 ms and t0 + 70 ms
InitSchedule ==
  /\ \E t0 \in StartTimes :
       /\ Configured({"CAPTURING"})
       /\ clock = t0
       /\ sched = [k \in 1..Len(PacingOffsets) |-> t0 + PacingOffsets[k] * TICK_NS]
  /\ gl_ext = FALSE
  /\ shared_drawable = FALSE

\* the host makes the call planned for now
host_frame ==
  /\ sched # <<>>
  /\ clock = Head(sched)
  /\ call[1].op = "none"
  /\ gl_capture_frame(1, 1, MaxFrames + 1)

\* the call has returned: the host waits for the time of the next one
host_wait ==
  /\ Len(sched) > 1
  /\ pc[1] = "idle"
  /\ call[1].op = "frame"
  /\ clock' = sched[2]
  /\ sched' = Tail(sched)
  /\ call' = [call EXCEPT ![1] = NoCall]
  /\ UNCHANGED <<pc, loc>>
  /\ UNCHANGED compVars
  /\ UNCHANGED <<xgeom, xgamma, gl_ext, gl_map_ok, ps, glc_state,
                 shared_drawable, tracker, scale, info>>

NextSchedule ==
  \/ host_frame
  \/ host_wait
  \/ ReadPixelsStep(1)

SpecSchedule == InitSchedule /\ [][NextSchedule]_vars

\* the steps of frame() that call the packet buffer
PacketStep(t) ==
  \/ write_video_format_message(t)
  \/ update_color_write(t)
  \/ frame_open(t)
  \/ frame_write(t)
  \/ frame_cancel(t)

\* one render thread and one drawable in default mode on a started component,
\* with or without PBO, while other writers use the buffer, the buffer fills
\* up and is emptied, a reader cancels it and glMapBuffer may fail
InitIO ==
  /\ \E fl \in {{"CAPTURING"}, {"CAPTURING", "TRY_PBO"}} : Configured(fl)
  /\ clock = 4 * TICK_NS
  /\ gl_ext = TRUE
  /\ shared_drawable = FALSE
  /\ sched = <<>>

NextIO ==
  \/ gl_capture_frame(1, 1, MaxIOFrames)
  \/ FrameStep(1)
  \/ update_color_write(1)
  \/ StopStep(1)
  \/ Tick(4 * TICK_NS)
  \/ ps_writer_open
  \/ ps_writer_close
  \/ ps_fill
  \/ ps_drain
  \/ ps_buffer_cancel
  \/ gl_map_fail
  \/ x_set_gamma

SpecIO == InitIO /\ [][NextIO]_vars

\* the positive rates set before the capture of SpecFps
FpsRates == {<<30, 1>>, <<60, 1>>, <<15, 2>>, <<7, 1>>, <<50, 1>>}

\* one render thread and one drawable on a started component, in default
\* mode, with IGNORE_TIME or with LOCK_FPS; the rate is the default or is
\* set before the first frame
InitFps ==
  /\ \E fl \in {{"CAPTURING"}, {"CAPTURING", "IGNORE_TIME"},
                 {"CAPTURING", "LOCK_FPS"}} : Configured(fl)
  /\ clock = 4 * TICK_NS
  /\ gl_ext = FALSE
  /\ shared_drawable = FALSE
  /\ sched = <<>>

NextFps ==
  \/ /\ video = <<>>
     /\ pc[1] = "idle"
     /\ \E fps \in FpsRates : gl_capture_set_fps(fps)
  \/ gl_capture_frame(1, 1, MaxFpsFrames)
  \/ ReadPixelsStep(1)
  \/ frame_sleep(1)
  \/ Tick(4 * TICK_NS)

SpecFps == InitFps /\ [][NextFps]_vars

\* the steps of a frame() call that may initialise PBO and reads the pixels
\* with glReadPixels or from the PBO
PboStep(t) ==
  \/ ReadPixelsStep(t)
  \/ update_pbo_lock(t)
  \/ update_pbo_store(t)

\* one render thread and one drawable on a started component, while the
\* control thread requests and revokes PBO; the GL may or may not have the
\* PBO extension
InitPbo ==
  /\ Configured({"CAPTURING"})
  /\ clock = 4 * TICK_NS
  /\ gl_ext \in BOOLEAN
  /\ shared_drawable = FALSE
  /\ sched = <<>>

NextPbo ==
  \/ \E try_pbo \in {0, 1} : gl_capture_try_pbo(try_pbo)
  \/ flag_store
  \/ gl_capture_frame(1, 1, MaxFrames)
  \/ PboStep(1)
  \/ Tick(4 * TICK_NS)

SpecPbo == InitPbo /\ [][NextPbo]_vars

\* one render thread drawing two drawables on a started component, while
\* the control thread refreshes the colour correction and the user changes
\* the gamma of the screen
InitColor ==
  /\ Configured({"CAPTURING"})
  /\ clock = 4 * TICK_NS
  /\ gl_ext = FALSE
  /\ shared_drawable = FALSE
  /\ sched = <<>>

NextColor ==
  \/ gl_capture_refresh_color_correction
  \/ x_set_gamma
  \/ \E d \in Drawables : gl_capture_frame(1, d, MaxIOFrames)
  \/ ReadPixelsStep(1)
  \/ update_color_write(1)
  \/ Tick(4 * TICK_NS)

SpecColor == InitColor /\ [][NextColor]_vars

\* the corners and the extents of the crop rectangles, the largest unsigned
\* int among the extents
CropCorners == {0, 2, 5}
CropExtents == {0, 3, 2 ^ UintBits - 1}

\* one render thread and one drawable on a started component with
\* IGNORE_TIME: the crop rectangle is set before the first frame, the user
\* resizes the window between the frames
InitCrop ==
  /\ Configured({"CAPTURING", "IGNORE_TIME"})
  /\ clock = 4 * TICK_NS
  /\ gl_ext = FALSE
  /\ shared_drawable = FALSE
  /\ sched = <<>>

NextCrop ==
  \/ /\ video = <<>>
     /\ call[CTL].op = "none"
     /\ \E x, y \in CropCorners : \E width, height \in CropExtents :
          gl_capture_crop(x, y, width, height)
  \/ flag_store
  \/ x_resize_window(1)
  \/ gl_capture_frame(1, 1, MaxIOFrames)
  \/ ReadPixelsStep(1)

SpecCrop == InitCrop /\ [][NextCrop]_vars

\* one render thread and one drawable on a started component with
\* IGNORE_TIME, while the control thread sets the pack alignment and the
\* pixel format and the user resizes the window
InitRow ==
  /\ Configured({"CAPTURING", "IGNORE_TIME"})
  /\ clock = 4 * TICK_NS
  /\ gl_ext = FALSE
  /\ shared_drawable = FALSE
  /\ sched = <<>>

NextRow ==
  \/ \E a \in PackAlignments : gl_capture_set_pack_alignment(a)
  \/ \E f \in PixelFormats : gl_capture_set_pixel_format(f)
  \/ x_resize_window(1)
  \/ gl_capture_frame(1, 1, MaxIOFrames)
  \/ ReadPixelsStep(1)

SpecRow == InitRow /\ [][NextRow]_vars

\* one render thread and one drawable on a started component after
\* try_pbo(1), the GL having the PBO extension: the clock advances between
\* the calls and inside them, the state time may be reset and the user may
\* resize the window
InitPboTime ==
  /\ Configured({"CAPTURING", "TRY_PBO"})
  /\ clock = 4 * TICK_NS
  /\ gl_ext = TRUE
  /\ shared_drawable = FALSE
  /\ sched = <<>>

NextPboTime ==
  \/ gl_capture_frame(1, 1, MaxFrames)
  \/ PboStep(1)
  \/ Tick(4 * TICK_NS)
  \/ glc_state_time_reset
  \/ x_resize_window(1)

SpecPboTime == InitPboTime /\ [][NextPboTime]_vars

\* a tracker that is given messages and iterated over between them
InitTracker ==
  /\ Configured({})
  /\ clock = 0
  /\ gl_ext = FALSE
  /\ shared_drawable = FALSE
  /\ sched = <<>>

NextTracker ==
  \/ \E message \in TrackerMessages : tracker_submit(message)
  \/ tracker_iterate_state
  \/ iterate_video_format
  \/ iterate_video_color
  \/ iterate_audio_format

SpecTracker == InitTracker /\ [][NextTracker]_vars

\* the packets of the scaler's input: the format messages of streams ids
\* with sizes and flags of the given sets, the pictures, and a message of
\* another type
ScaleCtxMessages(ids, sizes, flagsets) ==
  {[type |-> "CTX", ctx |-> i, flags |-> f, w |-> z[1], h |-> z[2],
    orig |-> NoFormat] : i \in ids, z \in sizes, f \in flagsets}
ScalePictures(ids, pats) ==
  [type : {"PICTURE"}, ctx : ids, pat : pats, fmt : {NoFormat}]
ScaleOther == {[type |-> "COLOR", ctx |-> 1]}

ScaleSizes == {<<2, 1>>, <<2, 2>>, <<3, 2>>}
ScaleFlagSets ==
  {{"GLC_CTX_BGR"}, {"GLC_CTX_BGRA"},
   {"GLC_CTX_BGR", "GLC_CTX_DWORD_ALIGNED"},
   {"GLC_CTX_BGRA", "GLC_CTX_DWORD_ALIGNED"}}
ScaleFactors == {<<1, 2>>, <<1, 1>>, <<5, 8>>}

\* the format messages the model offers: the scaled picture has a pixel
ScaleNonEmpty(m) ==
  m.type = "CTX" =>
    /\ scale_mul_uint(scale.glc_scale, m.w) > 0
    /\ scale_mul_uint(scale.glc_scale, m.h) > 0

\* the scaler, started with a glc->scale of the set S
InitScaler(S) ==
  /\ gl = set_buffer(gl_capture_init, 1).gl
  /\ flags = {}
  /\ capture_spinlock = 0
  /\ mutex = 0
  /\ video = <<>>
  /\ pc = [t \in Threads |-> "idle"]
  /\ loc = [t \in Threads |-> NoLocals]
  /\ call = [t \in Threads |-> NoCall]
  /\ xgeom = [w \in Drawables |-> <<4, 2>>]
  /\ xgamma = gamma_one
  /\ gl_map_ok = TRUE
  /\ ps = ps_buffer_init
  /\ glc_state = "RUN"
  /\ tracker = tracker_init
  /\ clock = 0
  /\ gl_ext = FALSE
  /\ shared_drawable = FALSE
  /\ sched = <<>>
  /\ scale \in {scale_init(s) : s \in S}
  /\ info = info_init

\* one stream scaled by one thread of the pool
InitScale == InitScaler(ScaleFactors)

NextScale ==
  \/ \E m \in ScaleCtxMessages({1}, ScaleSizes, ScaleFlagSets)
                \cup ScalePictures({1}, {"pixels", "grey", "flat"})
                \cup ScaleOther :
       ScaleNonEmpty(m) /\ scale_thread_read(1, m)
  \/ scale_read_callback(1)
  \/ scale_write_callback(1)
  \/ scale_pic_msg_loop(1)

SpecScale == InitScale /\ [][NextScale]_vars


\* formats whose scale maps show the ratio, the taps and the weights
MapSizes == {<<4, 4>>, <<4, 5>>, <<2, 2>>, <<3, 3>>, <<5, 4>>, <<32, 2>>}
MapFlagSets ==
  {{"GLC_CTX_BGR"}, {"GLC_CTX_BGRA", "GLC_CTX_DWORD_ALIGNED"}}
MapFactors == {<<1, 2>>, <<5, 8>>, <<7, 8>>, <<5, 4>>}

InitScaleMap == InitScaler(MapFactors)

\* one format message, then pictures of the ramp
NextScaleMap ==
  \/ \E m \in ScaleCtxMessages({1}, MapSizes, MapFlagSets) :
       scale.from = 0 /\ ScaleNonEmpty(m) /\ scale_thread_read(1, m)
  \/ \E m \in ScalePictures({1}, {"ramp"}) : scale_thread_read(1, m)
  \/ scale_read_callback(1)
  \/ scale_write_callback(1)
  \/ scale_pic_msg_loop(1)

SpecScaleMap == InitScaleMap /\ [][NextScaleMap]_vars


\* two threads of the pool and the pictures of two streams
PoolSizes == {<<2, 2>>, <<4, 2>>}
PoolFactors == {<<1, 2>>, <<5, 8>>}

InitScalePool == InitScaler(PoolFactors)

NextScalePool ==
  \E t \in ScaleThreads :
    \/ \E m \in ScaleCtxMessages(ScaleCtxIds, PoolSizes, {{"GLC_CTX_BGR"}})
                  \cup ScalePictures(ScaleCtxIds, {"grey"}) :
         scale_thread_read(t, m)
    \/ scale_read_callback(t)
    \/ scale_write_callback(t)
    \/ scale_pic_msg_loop(t)

SpecScalePool == InitScalePool /\ [][NextScalePool]_vars


\* the messages the info sink is given
InfoTimes == {500000000, 2000000000}
InfoFormats ==
  {[type |-> "VIDEO_FORMAT", id |-> 1, flags |-> f, format |-> fmt,
    width |-> 8, height |-> 2] :
     f \in {{}, {"DWORD_ALIGNED"}},
     fmt \in {GLC_VIDEO_BGR, GLC_VIDEO_BGRA, GLC_VIDEO_YCBCR_420JPEG}}
  \cup
  {[type |-> "VIDEO_FORMAT", id |-> 1, flags |-> f, format |-> GLC_VIDEO_BGR,
    width |-> 3, height |-> 2] : f \in {{}, {"DWORD_ALIGNED"}}}
InfoFrames ==
  {[type |-> "VIDEO_FRAME", id |-> i, time |-> n] :
     i \in {1, 2}, n \in InfoTimes}
InfoAudio ==
  {[type |-> "AUDIO_DATA", id |-> 1, time |-> 500000000, size |-> 100]}
InfoClose == {[type |-> "CLOSE"]}
ThreadCreateRets == {0, EAGAIN, EINVAL}

InitInfo == InitScaler({<<1, 1>>})

\* the thread of the sink and the messages of one input
NextInfo ==
  \/ info.op = "none" /\ info_set_level(INFO_FPS)
  \/ info.threads = 0 /\ info_process_start(0)
  \/ \E m \in InfoFormats \cup InfoFrames \cup InfoAudio \cup InfoClose :
       info_thread_read(m)
  \/ info_thread_finish

SpecInfo == InitInfo /\ [][NextInfo]_vars

InitInfoRun == InitScaler({<<1, 1>>})

\* the calls of the program that owns the sink
NextInfoRun ==
  \/ \E level \in {0, INFO_FPS} : info_set_level(level)
  \/ \E ret \in ThreadCreateRets : info_process_start(ret)
  \/ info_process_wait
  \/ \E m \in InfoClose
              \cup {[type |-> "VIDEO_FRAME", id |-> 1, time |-> 2000000000]} :
       info_thread_read(m)
  \/ info_thread_finish

SpecInfoRun == InitInfoRun /\ [][NextInfoRun]_vars

\* a started component, with or without PBO requested on a GL that has the
\* extension, whose host calls frame() at t0, t0 + 10 ms, t0 + 40 ms and
\* t0 + 70 ms
InitDrop ==
  /\ \E t0 \in StartTimes, fl \in {{"CAPTURING"}, {"CAPTURING", "TRY_PBO"}} :
       /\ Configured(fl)
       /\ clock = t0
       /\ sched = [k \in 1..Len(PacingOffsets) |-> t0 + PacingOffsets[k] * TICK_NS]
  /\ gl_ext = TRUE
  /\ shared_drawable = FALSE

NextDrop ==
  \/ host_frame
  \/ host_wait
  \/ PboStep(1)

SpecDrop == InitDrop /\ [][NextDrop]_vars

\* one render thread that draws drawables 1 and 2 on a started component in
\* IGNORE_TIME mode, with or without PBO requested: the user resizes the
\* windows and a reader may cancel the buffer
InitFormat ==
  /\ \E fl \in {{"CAPTURING", "IGNORE_TIME"},
                 {"CAPTURING", "IGNORE_TIME", "TRY_PBO"}} : Configured(fl)
  /\ clock = 4 * TICK_NS
  /\ gl_ext = TRUE
  /\ shared_drawable = FALSE
  /\ sched = <<>>

NextFormat ==
  \/ \E d \in 1..2 : gl_capture_frame(1, d, MaxIOFrames)
  \/ FrameStep(1)
  \/ StopStep(1)
  \/ \E d \in 1..2 : x_resize_window(d)
  \/ ps_buffer_cancel

SpecFormat == InitFormat /\ [][NextFormat]_vars

(***************************************************************************)
(* Claims.                                                                 *)
(***************************************************************************)
\* the control thread's last call was gl_capture_stop and it has returned
stop_returned == pc[CTL] = "idle" /\ call[CTL].op = "stop"

\* C1: after gl_capture_stop() has returned and until gl_capture_start() is
\* called, the component's CAPTURING flag and every stream's CAPTURING bit
\* are clear and no message is written downstream.
C1_StopQuiesces ==
  [][stop_returned' =>
       /\ "CAPTURING" \notin flags'
       /\ \A i \in 1..Len(video') : "CAPTURING" \notin video'[i].flags
       /\ stop_returned => ps'.msgs = ps.msgs]_vars

\* C2: a gl_capture_stop() that found capturing active returns only when no
\* frame() call that passed the capturing check is still in its capture
\* section, and at its return the last publish time of every stream is 0.
C2_StopDrains ==
  [][(pc[CTL] = "drain" /\ pc'[CTL] = "idle") =>
       /\ \A t \in FrameThreads : ~InCapture(t)'
       /\ \A i \in 1..Len(video') : video'[i].last = 0]_vars

\* whether a setter rejects its argument on the component g, and with what
SetterRejects(op, arg, g) ==
  CASE op = "set_buffer" -> g.to # NULL
    [] op = "set_read_buffer" -> arg \notin {GL_FRONT, GL_BACK}
    [] op = "set_pack_alignment" -> arg \notin {1, 8}
    [] op = "set_pixel_format" -> arg \notin {GL_BGR, GL_BGRA}
    [] op = "set_fps" -> arg[1] <= 0
    [] OTHER -> FALSE

SetterError(op) ==
  CASE op = "set_buffer" -> EALREADY
    [] op = "set_fps" -> EINVAL
    [] OTHER -> ENOTSUP

\* C10: a configuration setter that rejects its argument returns its error
\* code (EALREADY, ENOTSUP or EINVAL) and leaves the whole component
\* unchanged; set_buffer on a bound component keeps the original buffer.
C10_RejectedSetterKeepsState ==
  [][SetterRejects(call'[CTL].op, call'[CTL].arg, gl) =>
       /\ call'[CTL].ret = SetterError(call'[CTL].op)
       /\ UNCHANGED compVars]_vars

\* set_buffer(2) on a component bound to buffer 1 has returned EALREADY
C10_Witness ==
  /\ call[CTL] = [op |-> "set_buffer", arg |-> 2, ret |-> EALREADY]
  /\ gl.to = 1

\* C3: a gl_capture_stop() that found capturing active returns, whatever
\* start, frame, set_attribute_window and refresh_color_correction calls were
\* made before, when every frame() call in flight runs to its end.
C3_StopTerminates == (pc[CTL] = "stop_lock") ~> stop_returned

\* C4, as stated: at every instant at most one frame() call is in the
\* capture section of a stream, and the stream's CAPTURING bit is set while
\* one is.
C4_OneCapturePerStream ==
  \A s \in 1..Len(video) :
    /\ Cardinality(InFlight(s)) <= 1
    /\ InFlight(s) # {} => "CAPTURING" \in video[s].flags

\* C4, amended: when the host never runs two frame() calls for one drawable
\* at once, the stream's CAPTURING bit is set for as long as a frame() call
\* is in the capture section of that stream.
C4_BitSetWhileCapturing ==
  ~shared_drawable =>
    \A s \in 1..Len(video) :
      InFlight(s) # {} => "CAPTURING" \in video[s].flags

\* one render thread is writing a frame and the other is about to open its
\* packet, each for its own stream
C4_Witness ==
  /\ ~shared_drawable
  /\ pc[1] = "frame_write"
  /\ pc[2] = "frame_open"
  /\ loc[1].video # loc[2].video

\* the time stamps of the VIDEO_FRAME messages of stream id, in the order
\* they were published
FrameTimes(id) ==
  LET f == SelectSeq(ps.msgs,
                     LAMBDA m : m.type = "VIDEO_FRAME" /\ m.id = id)
  IN [i \in 1..Len(f) |-> f[i].time]

\* C5: in default mode without PBO, two consecutively published frames of a
\* stream are at least fps_period apart, less the drift correction fps_rem,
\* whatever the times of the frame() calls and the clock at the first call.
C5_FramesOnePeriodApart ==
  \A id \in 1..Len(video) :
    LET times == FrameTimes(id)
    IN \A i \in 1..(Len(times) - 1) :
         times[i + 1] >= times[i] + gl.fps_period - gl.fps_rem

\* every planned call has been made and has returned
ScheduleDone == Len(sched) = 1 /\ pc[1] = "idle" /\ call[1].op = "frame"

\* C6: at 30 fps on a freshly started stream, frame() calls at t0,
\* t0 + 10 ms, t0 + 40 ms and t0 + 70 ms publish the first, third and fourth
\* frame and no other, whatever t0 is.
C6_PacingScenario ==
  ScheduleDone =>
    LET t0 == clock - PacingOffsets[Len(PacingOffsets)] * TICK_NS
    IN FrameTimes(1) = <<t0, t0 + 4 * TICK_NS, t0 + 7 * TICK_NS>>

DefaultMode == "LOCK_FPS" \notin flags /\ "IGNORE_TIME" \notin flags

\* C7, as stated: in default mode a frame() call that is about to open,
\* write or cancel a packet, for a VIDEO_FORMAT, COLOR or VIDEO_FRAME
\* message, can always take that step: it never waits for the buffer.
C7_FrameNeverBlocks ==
  \A t \in FrameThreads :
    (DefaultMode /\ pc[t] \in {"fmt_open", "color_open", "frame_open",
                               "frame_write", "cancel"})
      => ENABLED PacketStep(t)

\* C7, amended: in default mode a frame() call that is about to open, write
\* or cancel the packet of a VIDEO_FRAME message can always take that step.
C7_VideoFrameNeverBlocks ==
  \A t \in FrameThreads :
    (DefaultMode /\ pc[t] \in {"frame_open", "frame_write", "cancel"})
      => ENABLED PacketStep(t)

\* the first frame of the stream was dropped at the open of its packet,
\* which another writer holds
C7_Witness ==
  /\ DefaultMode
  /\ pc[1] = "finish"
  /\ ps.lock = -1
  /\ ~ps.cancelled
  /\ "USE_PBO" \notin flags
  /\ video[loc[1].video].num_frames = 1
  /\ video[loc[1].video].num_captured_frames = 0

\* C8: a frame() call in which a packet or GL call has failed with a hard
\* error returns that error, with the component's CAPTURING flag clear and
\* the buffer cancelled.
C8_HardErrorStops ==
  [][\A t \in FrameThreads :
       (pc[t] \in {"finish", "error_cancel"} /\ pc'[t] = "idle"
          /\ loc[t].hard # 0)
         => /\ call'[t].ret = loc[t].hard
            /\ "CAPTURING" \notin flags'
            /\ ps'.cancelled]_vars

\* the step of frame() of thread t that drops the frame on EBUSY: the try
\* open of a packet another writer holds, or the cancel after the size
\* reservation on a full buffer
DropsFrame(t) ==
  \/ pc[t] = "frame_open" /\ ps.lock # 0 /\ ~ps.cancelled /\ pc'[t] # pc[t]
  \/ pc[t] = "cancel" /\ loc[t].ret = EBUSY /\ pc'[t] # pc[t]

\* C9: a frame dropped on EBUSY leaves nothing published and no packet open,
\* the component capturing, the buffer not cancelled, last and
\* num_captured_frames as they were; frame() then releases the stream's
\* CAPTURING bit and returns 0.
C9_BackpressureDrop ==
  [][\A t \in FrameThreads :
       LET id == loc[t].video
       IN /\ DropsFrame(t) =>
               /\ pc'[t] = "finish"
               /\ loc'[t].ret = 0
               /\ ps'.msgs = ps.msgs
               /\ ps'.cancelled = ps.cancelled
               /\ ~video'[id].packet.open
               /\ flags' = flags
               /\ glc_state' = glc_state
               /\ video'[id].last = video[id].last
               /\ video'[id].num_captured_frames = video[id].num_captured_frames
          /\ (pc[t] = "finish" /\ loc[t].ret = 0 /\ pc'[t] # pc[t]) =>
               /\ pc'[t] = "idle"
               /\ call'[t] = [op |-> "frame", arg |-> loc[t].drawable, ret |-> 0]
               /\ "CAPTURING" \notin video'[id].flags
               /\ flags' = flags
               /\ ps' = ps
               /\ glc_state' = glc_state
               /\ video'[id].last = video[id].last
               /\ video'[id].num_captured_frames = video[id].num_captured_frames
    ]_vars

\* the first frame of the stream was dropped after the size reservation on
\* the full buffer; frame() is about to return
C9_Witness ==
  /\ pc[1] = "finish"
  /\ loc[1].ret = 0
  /\ loc[1].hard = 0
  /\ ps.full
  /\ ps.lock = 0
  /\ ps.msgs # <<>>
  /\ "CAPTURING" \in flags
  /\ "USE_PBO" \notin flags
  /\ video[loc[1].video].num_frames = 1
  /\ video[loc[1].video].num_captured_frames = 0


\* the rate of the last set_fps call, or the default of gl_capture_init
CurrentRate == IF call[CTL].op = "set_fps" THEN call[CTL].arg ELSE <<30, 1>>

\* what is added to last over fps_rem_period captured frames
FpsWindow == gl.fps_rem_period * gl.fps_period + gl.fps_rem

\* FpsWindow * f = 10^9 * fps_rem_period for f = n/d, with the common factor
\* of n and 10^9 divided out of both sides
FpsExact(f) ==
  LET k == Gcd(NSEC_PER_SEC, f[1])
      B == NSEC_PER_SEC \div k
  IN /\ FpsWindow % B = 0
     /\ (FpsWindow \div B) * (f[1] \div k) = f[2] * gl.fps_rem_period

\* the frames of stream id that were captured and have advanced last
FramesAdvanced(id) ==
  video[id].num_captured_frames
    - IF \E t \in FrameThreads : pc[t] = "sleep" /\ loc[t].video = id
      THEN 1 ELSE 0

\* C11: after set_fps(f) with f > 0, or with the defaults of init,
\* fps_period is the floor of 10^9 / f and the remainder added every
\* fps_rem_period captured frames is exact: last has advanced by fps_period
\* per captured frame and by fps_rem per fps_rem_period captured frames,
\* which is 10^9 * fps_rem_period / f per fps_rem_period frames; with
\* IGNORE_TIME the published times show it.
C11_RationalPeriodExact ==
  /\ gl.fps_rem < gl.fps_rem_period
  /\ FpsExact(CurrentRate)
  /\ \A id \in 1..Len(video) :
       LET n == FramesAdvanced(id)
           times == FrameTimes(id)
       IN /\ video[id].last = n * gl.fps_period
                                + (n \div gl.fps_rem_period) * gl.fps_rem
          /\ "IGNORE_TIME" \in flags =>
               \A i \in 1..(Len(times) - gl.fps_rem_period) :
                 times[i + gl.fps_rem_period] - times[i] = FpsWindow

\* 7 fps (1 s / 7 = 142857142 ns and 6 ns every 7 frames): eight frames
\* published with IGNORE_TIME
C11_Witness ==
  /\ CurrentRate = <<7, 1>>
  /\ gl.fps_rem = 6
  /\ "IGNORE_TIME" \in flags
  /\ Len(video) = 1
  /\ Len(FrameTimes(1)) = MaxFpsFrames

C13_TryPbo ==
  [][/\ (pc[CTL] = "idle" /\ call'[CTL] # call[CTL]
          /\ call'[CTL].op = "try_pbo" /\ call'[CTL].ret # 0) =>
          /\ call'[CTL] = [op |-> "try_pbo", arg |-> 0, ret |-> EAGAIN]
          /\ "USE_PBO" \in flags
          /\ flags' = flags
     /\ (pc[CTL] = "idle" /\ pc'[CTL] = "flag_store"
          /\ loc'[CTL].op = "try_pbo" /\ loc'[CTL].arg = 0) =>
          "USE_PBO" \notin flags
     /\ (pc[CTL] = "flag_store" /\ pc'[CTL] = "idle"
          /\ loc[CTL].op = "try_pbo") =>
          /\ call'[CTL] = [op |-> "try_pbo", arg |-> loc[CTL].arg, ret |-> 0]
          /\ ("TRY_PBO" \in flags') = (loc[CTL].arg # 0)]_vars

\* try_pbo(0) has failed while PBO is in use and requested
C13_Witness ==
  /\ call[CTL] = [op |-> "try_pbo", arg |-> 0, ret |-> EAGAIN]
  /\ pc[CTL] = "idle"
  /\ {"USE_PBO", "TRY_PBO"} \subseteq flags

\* the COLOR messages of stream id, in the order they were published
ColorMsgs(id) ==
  SelectSeq(ps.msgs, LAMBDA m : m.type = "COLOR" /\ m.id = id)

\* thread t is in frame() between the query of the gamma and the write of
\* the COLOR message of stream id
ColorPending(id) ==
  \E t \in FrameThreads : pc[t] = "color_open" /\ loc[t].video = id

\* C14: refresh_color_correction sets NEED_COLOR_UPDATE on every stream; the
\* colour step of the next frame() of a stream that is not dropped by
\* schedule clears the flag, caches the queried triplet and goes on to write
\* a COLOR message, ahead of the frame, exactly when the triplet differs
\* from the cached one: the last COLOR message of a stream carries the
\* cached triplet and no two successive COLOR messages of a stream carry
\* the same triplet.
C14_ColorRefresh ==
  /\ [][/\ (call'[CTL] # call[CTL]
             /\ call'[CTL].op = "refresh_color_correction") =>
             /\ Len(video') = Len(video)
             /\ \A i \in 1..Len(video') :
                  "NEED_COLOR_UPDATE" \in video'[i].flags
        /\ \A t \in FrameThreads :
             (pc[t] = "color" /\ pc'[t] # "color"
              /\ "NEED_COLOR_UPDATE" \in video[loc[t].video].flags) =>
               LET id == loc[t].video
               IN /\ "NEED_COLOR_UPDATE" \notin video'[id].flags
                  /\ video'[id].gamma = xgamma
                  /\ (pc'[t] = "color_open") = (xgamma # video[id].gamma)
                  /\ pc'[t] \in {"color_open", "pbo_start"}
        /\ \A t \in FrameThreads :
             (pc[t] = "color_open" /\ pc'[t] # "color_open") =>
               /\ ps'.msgs = Append(ps.msgs,
                                    color_message(video[loc[t].video]))
               /\ pc'[t] = "pbo_start"]_vars
  /\ [](\A id \in 1..Len(video) :
          LET c == ColorMsgs(id)
          IN /\ ~ColorPending(id) =>
                  IF c = <<>>
                  THEN video[id].gamma \in {<<0, 0, 0>>, gamma_one}
                  ELSE color_message(video[id]) = c[Len(c)]
             /\ \A i \in 1..(Len(c) - 1) : c[i] # c[i + 1])

\* the first frame of stream 1 was published without a COLOR message (the
\* gamma was 1.0), then the gamma changed and a refresh made its second
\* frame write a COLOR message ahead of the frame; stream 2 has captured a
\* frame and is marked by a refresh that no frame has served yet
C14_Witness ==
  /\ Len(video) = 2
  /\ LET m == SelectSeq(ps.msgs,
                        LAMBDA x : x.type \in {"COLOR", "VIDEO_FRAME"}
                                   /\ x.id = 1)
     IN /\ Len(m) = 3
        /\ m[1].type = "VIDEO_FRAME"
        /\ m[2] = [color_message(video[1]) EXCEPT !.red = 12]
        /\ m[3].type = "VIDEO_FRAME"
  /\ video[2].num_captured_frames = 1
  /\ "NEED_COLOR_UPDATE" \in video[2].flags
  /\ pc[1] = "idle"

\* the geometry of the stream was computed (w and h are those of a window)
HasGeometry(v) == v.w # 0 /\ v.h # 0

\* C15: after every geometry computation, whatever the window size and the
\* crop rectangle, cw <= w, ch <= h, cx + cw <= w and cy + ch <= h.
C15_CropWithinWindow ==
  \A id \in 1..Len(video) :
    LET v == video[id]
    IN HasGeometry(v) =>
         /\ v.cw <= v.w
         /\ v.ch <= v.h
         /\ v.cx + v.cw <= v.w
         /\ v.cy + v.ch <= v.h

\* the smallest multiple of a that is at least n
Align(n, a) == CHOOSE r \in n..(n + a - 1) : r % a = 0

\* C16: a stream whose geometry was computed has the row stride
\* align(cw * bpp, pack_alignment) for the bytes per pixel and the pack
\* alignment the component has now.
C16_RowStride ==
  \A id \in 1..Len(video) :
    HasGeometry(video[id]) =>
      video[id].row = Align(video[id].cw * gl.bpp, gl.pack_alignment)

\* thread t publishes a VIDEO_FRAME message in this step
PublishesFrame(t) ==
  /\ pc[t] = "frame_write"
  /\ Len(ps'.msgs) = Len(ps.msgs) + 1
  /\ ps'.msgs[Len(ps'.msgs)].type = "VIDEO_FRAME"

\* C17: with PBO in use, pbo_time is stamped only by a frame() call that
\* starts a readback, with the time of that call, and a frame header
\* published by a later call carries that stamp, not the time of the call
\* that harvests the readback, unless the stamp is not earlier than that
\* time: then it carries the time of the harvesting call.
C17_PboFrameTime ==
  [][\A t \in FrameThreads :
       LET id == loc[t].video
       IN /\ (id # 0 /\ id <= Len(video) /\ pc[t] # "idle"
               /\ video'[id].pbo_time # video[id].pbo_time) =>
               /\ "USE_PBO" \in flags
               /\ pc[t] \in {"pbo_start", "frame_write"}
               /\ video'[id].pbo_time = loc[t].now
               /\ video'[id].pbo_active = 1
          /\ (PublishesFrame(t) /\ "USE_PBO" \in flags) =>
               LET time == ps'.msgs[Len(ps'.msgs)].time
               IN /\ video[id].pbo_active = 1
                  /\ video[id].pbo_time < loc[t].now =>
                       time = video[id].pbo_time
                  /\ video[id].pbo_time >= loc[t].now =>
                       time = loc[t].now]_vars

\* the readback started at 40 ms was harvested at 80 ms, and the one
\* started at 80 ms was harvested after the state time had been reset
C17_Witness ==
  /\ "USE_PBO" \in flags
  /\ FrameTimes(1) = <<4 * TICK_NS, 0>>
  /\ clock = 0

\* a pass of tracker_iterate_state over all that was submitted has returned 0
PassComplete ==
  /\ tracker.pc = "idle"
  /\ tracker.ret = 0
  /\ tracker.seen = Len(tracker.submitted)

\* the messages of a type and a stream id in a sequence of messages
MessagesOf(seq, type, id) ==
  LET m == SelectSeq(seq, LAMBDA x : x.type = type /\ x.id = id)
  IN [i \in 1..Len(m) |-> m[i].body]

\* C18: a pass of iterate() delivers, for each video stream id, the last
\* VIDEO_FORMAT message submitted and no other, at most one COLOR message,
\* the last submitted, and for each audio stream id the last AUDIO_FORMAT
\* message submitted and no other.
C18_LatestPerStream ==
  PassComplete =>
    \A id \in StreamIds : \A type \in TrackerTypes :
      LET sub == MessagesOf(tracker.submitted, type, id)
          got == MessagesOf(tracker.out, type, id)
      IN IF sub = <<>>
         THEN got = <<>>
         ELSE IF type = "COLOR" /\ got = <<>>
         THEN TRUE
         ELSE got = <<sub[Len(sub)]>>

\* C19: in a pass of iterate() the COLOR message of a stream is never
\* delivered before the VIDEO_FORMAT message of that stream, and no video
\* message is delivered after an AUDIO_FORMAT message.
C19_FormatBeforeColor ==
  \A i, j \in 1..Len(tracker.out) :
    i < j =>
      /\ ~(/\ tracker.out[i].type = "COLOR"
           /\ tracker.out[j].type = "VIDEO_FORMAT"
           /\ tracker.out[i].id = tracker.out[j].id)
      /\ ~(/\ tracker.out[i].type = "AUDIO_FORMAT"
           /\ tracker.out[j].type # "AUDIO_FORMAT")

\* the messages recorded in the tracker
Recorded ==
  Cardinality({x \in (1..Len(tracker.video_streams)) \X {"FORMAT", "COLOR"} :
                 x[2] \in tracker.video_streams[x[1]].flags})
  + Cardinality({i \in 1..Len(tracker.audio_streams) :
                   "FORMAT" \in tracker.audio_streams[i].flags})

\* C20: no callback is invoked after one that returned non-zero, and
\* iterate() returns that value; when every callback returns 0, iterate()
\* returns 0 after one callback for every recorded message.
C20_IterateStopsOnError ==
  LET out == tracker.out
  IN /\ \A i \in 1..(Len(out) - 1) : out[i].ret = 0
     /\ (tracker.pc # "idle" /\ out # <<>>) => out[Len(out)].ret = 0
     /\ tracker.pc = "idle" =>
          tracker.ret = IF out = <<>> THEN 0 ELSE out[Len(out)].ret
     /\ PassComplete => Len(out) = Recorded

\* a pass was ended by its second callback, one recorded message not visited
C20_Witness ==
  /\ tracker.pc = "idle"
  /\ tracker.ret = EINVAL
  /\ Len(tracker.out) = 2
  /\ Recorded = 3

\* the messages the callback was given in a pass, in order
CallsOf(out) ==
  [i \in 1..Len(out) |-> [type |-> out[i].type, id |-> out[i].id,
                          body |-> out[i].body]]

\* two passes of tracker_iterate_state have returned, no submit in between
TwoPasses ==
  /\ tracker.pc = "idle"
  /\ tracker.passes = 2

\* C21: iterate() leaves the lists of the tracker as they are, and two
\* consecutive passes with no submit() in between give the callback the same
\* messages in the same order: as far as both passes went, and to the end
\* when the callback returned 0 throughout.
C21_IterateIdempotent ==
  /\ [][tracker'.submitted = tracker.submitted =>
          /\ tracker'.video_streams = tracker.video_streams
          /\ tracker'.audio_streams = tracker.audio_streams]_vars
  /\ [](TwoPasses =>
          LET a == CallsOf(tracker.prev)
              b == CallsOf(tracker.out)
          IN /\ \A i \in 1..Len(a) : i <= Len(b) => a[i] = b[i]
             /\ (tracker.ret = 0 /\ tracker.prev_ret = 0) => a = b)

\* two passes over a video stream with both messages and an audio stream
\* both returned 0 after three callbacks
C21_Witness ==
  /\ TwoPasses
  /\ tracker.ret = 0
  /\ tracker.prev_ret = 0
  /\ Len(tracker.out) = 3
  /\ Len(tracker.prev) = 3

\* the pictures in the scaler's output
ScaleOut(type) == {i \in 1..Len(scale.to) : scale.to[i].type = type}

\* C22: with scale = 1.0, a picture of a stream whose last format message
\* declared BGR (and not BGRA) leaves the scaler as it came in, byte for
\* byte, whatever format messages the stream had before, and the scaler
\* goes on running.
C22_BgrPassthrough ==
  scale_is(scale.glc_scale, 1, 1) =>
    /\ ~scale.crashed
    /\ \A i \in ScaleOut("PICTURE") :
         LET o == scale.to[i]
         IN "GLC_CTX_BGRA" \notin o.pic.fmt.flags =>
              /\ o.done
              /\ o.size = picture_size(o.pic.fmt) + GLC_PICTURE_HEADER_SIZE
              /\ o.data = picture_data(o.pic)

\* the pixels of a picture, three bytes each, without alpha and padding
BgrOf(pic) ==
  [j \in 1..(pic.fmt.w * pic.fmt.h * 3) |->
     LET p == (j - 1) \div 3
     IN pattern_byte(pic.pat, p % pic.fmt.w, p \div pic.fmt.w, (j - 1) % 3)]

\* C23: with scale = 1.0, a BGRA picture of w x h pixels, its rows dword
\* aligned or not, leaves the scaler as w * h BGR pixels: bytes 0..2 of
\* each pixel in place, the alpha byte dropped; the 2x1 picture
\* [10,20,30,255, 40,50,60,128] leaves as [10,20,30, 40,50,60].
C23_BgraToBgr ==
  scale_is(scale.glc_scale, 1, 1) =>
    \A i \in ScaleOut("PICTURE") :
      LET o == scale.to[i]
      IN ("GLC_CTX_BGRA" \in o.pic.fmt.flags /\ o.done) =>
           /\ o.size = o.pic.fmt.w * o.pic.fmt.h * 3 + GLC_PICTURE_HEADER_SIZE
           /\ o.data = BgrOf(o.pic)
           /\ (o.pic.pat = "pixels" /\ o.pic.fmt.w = 2 /\ o.pic.fmt.h = 1) =>
                o.data = <<10, 20, 30, 40, 50, 60>>

\* a 3x2 BGRA picture with dword-aligned rows (16 bytes a row, 4 of them
\* padding) has left the scaler at scale 1.0 as 18 bytes
C23_Witness ==
  /\ scale_is(scale.glc_scale, 1, 1)
  /\ \E i \in ScaleOut("PICTURE") :
       LET o == scale.to[i]
       IN /\ o.done
          /\ o.pic.pat = "pixels"
          /\ o.pic.fmt = [flags |-> {"GLC_CTX_BGRA", "GLC_CTX_DWORD_ALIGNED"},
                          w |-> 3, h |-> 2]
          /\ Len(o.data) = 18
          /\ o.data[10] = 80

\* C24: with scale = 0.5, each channel of each output pixel is the integer
\* mean (a + b + c + d) >> 2 of that channel over the 2x2 block of source
\* pixels it covers; four equal pixels v give v, and the 2x2 picture
\* {0, 10, 20, 30} gives 15.
C24_HalfScaleMean ==
  scale_is(scale.glc_scale, 1, 2) =>
    \A i \in ScaleOut("PICTURE") :
      LET o == scale.to[i]
          sw == o.pic.fmt.w \div 2
          sh == o.pic.fmt.h \div 2
          px(x, y, ch) == pattern_byte(o.pic.pat, x, y, ch)
      IN o.done =>
           /\ Len(o.data) = sw * sh * 3
           /\ \A x \in 0..(sw - 1), y \in 0..(sh - 1), ch \in 0..2 :
                o.data[3 * (x + y * sw) + ch + 1] =
                  (px(2 * x, 2 * y, ch) + px(2 * x + 1, 2 * y, ch)
                   + px(2 * x, 2 * y + 1, ch)
                   + px(2 * x + 1, 2 * y + 1, ch)) \div 4
           /\ o.pic.pat = "flat" => \A j \in 1..Len(o.data) : o.data[j] = 255
           /\ (o.pic.pat = "grey" /\ o.pic.fmt.w = 2 /\ o.pic.fmt.h = 2) =>
                o.data = <<15, 15, 15>>

\* the 2x2 BGR picture {0, 10, 20, 30} has left the scaler as one pixel
C24_Witness ==
  /\ scale_is(scale.glc_scale, 1, 2)
  /\ \E i \in ScaleOut("PICTURE") :
       LET o == scale.to[i]
       IN /\ o.done
          /\ o.pic.pat = "grey"
          /\ o.pic.fmt = [flags |-> {"GLC_CTX_BGR"}, w |-> 2, h |-> 2]
          /\ o.data = <<15, 15, 15>>

\* the first row of a finished 2x2 picture made from the 4x4 BGR ramp
RampDone(o) ==
  /\ o.done
  /\ o.pic.pat = "ramp"
  /\ o.pic.fmt = [flags |-> {"GLC_CTX_BGR"}, w |-> 4, h |-> 4]
  /\ Len(o.data) = 2 * 2 * 3
RampRow(o) == SubSeq(o.data, 1, 6)

\* C25 as stated: the 4x4 BGR ramp with pixel (x, y) = (60x, 60x, 60x),
\* scaled to 2x2, has the output row {0, 90}.
C25_RampRow ==
  \A i \in ScaleOut("PICTURE") :
    RampDone(scale.to[i]) => RampRow(scale.to[i]) = <<0, 0, 0, 90, 90, 90>>

\* C25: the 4x4 BGR ramp scaled to 2x2 by a bilinear map (a scale between
\* 0.5 and 0.75) has the ratio d = 4 / 2 = 2 with r = 0, so that output
\* pixel (1, 0) is source pixel (2, 0): the output row is {0, 120}; at
\* scale 0.5 the mean of each 2x2 block gives the row {30, 150}.
C25_RampRowRatioTwo ==
  \A i \in ScaleOut("PICTURE") :
    LET o == scale.to[i]
    IN RampDone(o) =>
         /\ ~scale_is(scale.glc_scale, 1, 2) =>
              /\ LET c == scale.ctx[scale_find(scale.ctx, o.pic.ctx)]
                 IN scale_ratio(c, 0) = [r |-> 0, d |-> float_of_uint(2)]
              /\ RampRow(o) = <<0, 0, 0, 120, 120, 120>>
         /\ scale_is(scale.glc_scale, 1, 2) =>
              RampRow(o) = <<30, 30, 30, 150, 150, 150>>

\* the 4x4 BGR ramp has left the scaler at scale 0.625 as a 2x2 picture
C25_Witness ==
  /\ scale_is(scale.glc_scale, 5, 8)
  /\ \E i \in ScaleOut("PICTURE") :
       /\ RampDone(scale.to[i])
       /\ RampRow(scale.to[i]) = <<0, 0, 0, 120, 120, 120>>

\* the ratio of a scale map and the first source column (row) of target
\* column (row) n, as lines 316-343 compute them
MapRatio(c) == scale_ratio(c, 0)
MapTap(c, n) == float_to_uint(float_accum(MapRatio(c).d, n))
\* d * (sw - 1) + 1 <= w and d * (sh - 1) + 1 <= h for d = (w - r) / sw
RatioFits(c, r) ==
  /\ (c.w - r) * (c.sw - 1) <= (c.w - 1) * c.sw
  /\ (c.w - r) * (c.sh - 1) <= (c.h - 1) * c.sw

\* C26: every bilinear scale map has the ratio d = (w - r) / sw of the
\* smallest r >= 0 with d * (sw - 1) + 1 <= w and d * (sh - 1) + 1 <= h,
\* and the four taps of every target pixel are inside the source picture:
\* their columns are at most w - 1 and their rows at most h - 1.
C26_TapsInside ==
  \A i \in 1..Len(scale.ctx) :
    LET c == scale.ctx[i]
    IN c.pos # <<>> =>
         /\ RatioFits(c, MapRatio(c).r)
         /\ \A r \in 0..(MapRatio(c).r - 1) : ~RatioFits(c, r)
         /\ c.pos = scale_map_pos(c, MapRatio(c).d)
         /\ \A x \in 0..(c.sw - 1) : MapTap(c, x) + 1 <= c.w - 1
         /\ \A y \in 0..(c.sh - 1) : MapTap(c, y) + 1 <= c.h - 1

\* a float within one unit in the last place (2^-23) of 1.0
float_near_one(a) ==
  a \in {[m |-> 8388608, e |-> -23], [m |-> 8388609, e |-> -23],
         [m |-> 16777215, e |-> -24], [m |-> 16777214, e |-> -24]}

\* C27: in every bilinear scale map, each of the four weights of every
\* target pixel (fx0*fy0, fx1*fy0, fx0*fy1, fx1*fy1) is in [0, 1], and the
\* four add up to 1.0 within one unit in the last place.
C27_WeightsInUnit ==
  \A i \in 1..Len(scale.ctx) :
    LET c == scale.ctx[i]
    IN \A p \in 0..((Len(c.factor) \div 4) - 1) :
         LET f(k) == c.factor[4 * p + k + 1]
         IN /\ \A k \in 0..3 : ~float_negative(f(k)) /\ ~float_above_one(f(k))
            /\ float_near_one(
                 float_add(float_add(float_add(f(0), f(1)), f(2)), f(3)))

\* C28: the output packet of every picture the scaler processes (does not
\* pass through) is reserved with sw * sh * 3 bytes and the picture header,
\* where sw = floor(scale * w) and sh = floor(scale * h) for the w and h of
\* the last format message of the stream before the picture.
C28_ReservedSize ==
  \A i \in ScaleOut("PICTURE") :
    LET o == scale.to[i]
        sw == (scale.glc_scale[1] * o.pic.fmt.w) \div scale.glc_scale[2]
        sh == (scale.glc_scale[1] * o.pic.fmt.h) \div scale.glc_scale[2]
    IN o.by # <<>> =>
         /\ o.size = sw * sh * 3 + GLC_PICTURE_HEADER_SIZE
         /\ o.done => Len(o.data) = sw * sh * 3

\* a 3x2 picture is processed at scale 0.625 after a format message of
\* another size: a packet of 1 * 1 * 3 bytes and the header is reserved
C28_Witness ==
  /\ scale_is(scale.glc_scale, 5, 8)
  /\ \E i \in ScaleOut("PICTURE"), j \in ScaleOut("CTX") :
       /\ j < i
       /\ scale.to[j].orig.w = 2
       /\ scale.to[i].by # <<>>
       /\ scale.to[i].pic.fmt.w = 3
       /\ scale.to[i].pic.fmt.h = 2
       /\ scale.to[i].size = 3 + GLC_PICTURE_HEADER_SIZE
       /\ scale.to[i].done

\* C29: for every format message of a stream whose pictures are processed
\* (the scale is not 1.0, or the message declares BGRA), the scaler forwards
\* a format message with the output size (sw, sh) that declares BGR, does
\* not declare BGRA any more and does not declare dword-aligned rows.
C29_RewrittenFormat ==
  \A i \in ScaleOut("CTX") :
    LET o == scale.to[i]
        sw == (scale.glc_scale[1] * o.orig.w) \div scale.glc_scale[2]
        sh == (scale.glc_scale[1] * o.orig.h) \div scale.glc_scale[2]
    IN (~scale_is(scale.glc_scale, 1, 1) \/ "GLC_CTX_BGRA" \in o.orig.flags)
         => /\ o.w = sw
            /\ o.h = sh
            /\ "GLC_CTX_BGR" \in o.flags
            /\ "GLC_CTX_BGRA" \notin o.flags
            /\ "GLC_CTX_DWORD_ALIGNED" \notin o.flags

\* the ctx of stream id in the list, which has it
CtxOf(list, id) == list[scale_find(list, id)]
\* thread t is between the read lock of its read callback and the unlock
\* of its write callback
InWritePath(t) == scale.thread[t].pc \in {"write_callback", "scale_pic_msg"}

\* C30: while a worker processes a picture of a stream, from the read lock
\* of its read callback to the end of its write callback, no format message
\* changes the scaling parameters of the stream (the format update waits
\* for the write lock), and the picture is scaled with the parameters of
\* one format message: those its read callback found.
C30_ParamsStable ==
  /\ [][\A id \in ScaleCtxIds :
          (scale_find(scale.ctx, id) # 0 /\ CtxOf(scale.ctx, id).update > 0)
            => /\ scale_find(scale'.ctx, id) # 0
               /\ scale_params(CtxOf(scale'.ctx, id))
                    = scale_params(CtxOf(scale.ctx, id))]_vars
  /\ [](\A t \in ScaleThreads :
          InWritePath(t) =>
            LET th == scale.thread[t]
                c == CtxOf(scale.ctx, th.threadptr)
            IN /\ c.update > 0
               /\ scale_params(c) = scale.to[th.slot].by
               /\ scale.to[th.slot].size
                    = c.sw * c.sh * 3 + GLC_PICTURE_HEADER_SIZE
               /\ th.pc = "scale_pic_msg" =>
                    th.swi = c.sw * 3 /\ th.shi = c.sh * 3)

\* one thread is scaling a picture of a stream while the other has read a
\* format message of another size for that stream and waits for the lock
C30_Witness ==
  \E t, u \in ScaleThreads :
    /\ InWritePath(t)
    /\ scale.thread[u].pc = "read_callback"
    /\ scale.thread[u].msg.type = "CTX"
    /\ scale.thread[u].msg.ctx = scale.thread[t].threadptr
    /\ scale.thread[u].msg.w # CtxOf(scale.ctx, scale.thread[t].threadptr).w
    /\ ~rwlock_wrlock(CtxOf(scale.ctx, scale.thread[t].threadptr))

\* the payload of one picture of a format: h rows of w * bpp bytes, each
\* row rounded up to a multiple of 8 when the format is dword aligned, for
\* BGR and BGRA (the row * ch of gl_capture.c, lines 546-549), and
\* w * h * 3 / 2 bytes for YCbCr 4:2:0
FramePayload(fmt) ==
  IF fmt.format \in {GLC_VIDEO_BGR, GLC_VIDEO_BGRA}
  THEN LET row == fmt.width * (IF fmt.format = GLC_VIDEO_BGR THEN 3 ELSE 4)
       IN fmt.height * (IF "DWORD_ALIGNED" \in fmt.flags
                        THEN Align(row, 8) ELSE row)
  ELSE IF fmt.format = GLC_VIDEO_YCBCR_420JPEG
  THEN (fmt.width * fmt.height * 3) \div 2
  ELSE 0

\* the sum of the payloads of the pictures of stream id in a log, each with
\* the format in effect when it arrived; fmt is the format before the log
RECURSIVE InfoPayload(_, _, _)
InfoPayload(log, id, fmt) ==
  IF log = <<>> THEN 0
  ELSE LET m == Head(log)
       IN IF m.type = "VIDEO_FORMAT" /\ m.id = id
          THEN InfoPayload(Tail(log), id, m)
          ELSE IF m.type = "VIDEO_FRAME" /\ m.id = id
          THEN FramePayload(fmt) + InfoPayload(Tail(log), id, fmt)
          ELSE InfoPayload(Tail(log), id, fmt)

\* C31: after any sequence of VIDEO_FORMAT and VIDEO_FRAME messages the
\* bytes the info sink has tallied for a stream are the sum, over the
\* pictures of the stream, of the payload of the format in effect when the
\* picture arrived.
C31_ByteTally ==
  \A k \in 1..Len(info.video_list) :
    info.video_list[k].bytes =
      InfoPayload(info.log, info.video_list[k].id,
                  [format |-> 0, flags |-> {}, width |-> 0, height |-> 0])

\* the thread of the sink runs its finish callback in this step
InfoFinishes ==
  /\ info.thread \in {"reading", "closing"}
  /\ info'.thread = "done" \/ info'.crashed

\* C39: the finish callback of the info sink completes whatever the last
\* time stamp was, also below one second, reports the count, the bytes and
\* the rate of every video and audio stream it has tallied, and leaves both
\* stream lists empty.
C39_SummaryCompletes ==
  [][InfoFinishes =>
       /\ ~info'.crashed
       /\ info'.video_list = <<>>
       /\ info'.audio_list = <<>>
       /\ Len(info'.report) = Len(info.video_list) + Len(info.audio_list)
       /\ \A k \in 1..Len(info.video_list) :
            /\ info'.report[k].kind = "video"
            /\ info'.report[k].id = info.video_list[k].id
            /\ info'.report[k].count = info.video_list[k].pictures
            /\ info'.report[k].bytes = info.video_list[k].bytes
       /\ \A k \in 1..Len(info.audio_list) :
            LET r == info'.report[Len(info.video_list) + k]
            IN /\ r.kind = "audio"
               /\ r.id = info.audio_list[k].id
               /\ r.count = info.audio_list[k].packets
               /\ r.bytes = info.audio_list[k].bytes]_vars

\* a call of the named operation of the info sink returns in this step
\* (a call that changes nothing, not even the value returned, is no step)
InfoCall(op) ==
  /\ info'.op = op
  /\ <<info.op, info.ret, info.running>>
       # <<info'.op, info'.ret, info'.running>>

\* C40: info_process_start returns EAGAIN and creates no thread when the
\* sink is running, and sets running exactly when glc_thread_create has
\* succeeded; info_process_wait returns EAGAIN without waiting when the
\* sink is not running, and otherwise joins the thread and clears running.
\* The sink has a thread exactly while running is set.
C40_StartWaitProtocol ==
  /\ [][/\ InfoCall("start") =>
             IF info.running # 0
             THEN /\ info'.ret = EAGAIN
                  /\ info'.threads = info.threads
                  /\ info'.thread = info.thread
                  /\ info'.running = info.running
             ELSE \/ /\ info'.ret = 0
                     /\ info'.running = 1
                     /\ info'.threads = info.threads + 1
                     /\ info'.thread = "reading"
                  \/ /\ info'.ret # 0
                     /\ info'.running = 0
                     /\ info'.threads = info.threads
                     /\ info'.thread = "none"
        /\ InfoCall("wait") =>
             IF info.running = 0
             THEN /\ info'.ret = EAGAIN
                  /\ info'.thread = info.thread
                  /\ info'.running = 0
             ELSE /\ info.thread = "done"
                  /\ info'.ret = 0
                  /\ info'.running = 0
                  /\ info'.thread = "none"
        /\ info'.threads # info.threads => InfoCall("start")]_vars
  /\ [](info.running # 0 <=> info.thread # "none")

\* the first thread was joined, a second one was created, and a call of
\* info_process_start while it runs has returned EAGAIN
C40_Witness ==
  /\ info.op = "start"
  /\ info.ret = EAGAIN
  /\ info.running = 1
  /\ info.threads = 2
  /\ info.thread = "reading"
  /\ info.log # <<>>

\* C32: a frame() call that finds less than fps_period elapsed since the
\* stream's schedule time, with neither LOCK_FPS nor IGNORE_TIME set, is
\* dropped by schedule: it goes straight to the release of the stream, writes
\* no message, leaves last, num_frames, num_captured_frames and the PBO state
\* of the stream as they were, releases the stream's CAPTURING bit and
\* returns 0.
C32_DroppedBySchedule ==
  [][\A t \in FrameThreads :
       LET s == loc[t].video
       IN /\ (/\ pc[t] = "time"
              /\ pc'[t] # "time"
              /\ DefaultMode
              /\ u64_sub_lt(clock, video[s].last, gl.fps_period))
             => /\ pc'[t] = "finish"
                /\ loc'[t].ret = 0
                /\ ps' = ps
                /\ video' = video
          /\ (pc[t] = "finish" /\ pc'[t] # "finish" /\ loc[t].ret = 0)
             => /\ pc'[t] = "idle"
                /\ call'[t] = [op |-> "frame", arg |-> loc[t].drawable, ret |-> 0]
                /\ ps' = ps
                /\ video' = [video EXCEPT ![s].flags = @ \ {"CAPTURING"}]]_vars

\* the second planned call, 10 ms after the first, has returned 0: the
\* stream has counted and published the one frame of the first call, and a
\* transfer into the PBO that the first call started is still pending
C32_Witness ==
  /\ Len(sched) = Len(PacingOffsets) - 1
  /\ pc[1] = "idle"
  /\ call[1] = [op |-> "frame", arg |-> 1, ret |-> 0]
  /\ Len(video) = 1
  /\ video[1].num_frames = 1
  /\ video[1].pbo_active = 1
  /\ "CAPTURING" \notin video[1].flags
  /\ FrameTimes(1) = <<>>

\* C33: with TRY_PBO requested and render threads in frame() for different
\* streams at once, no two threads are in gl_capture_init_pbo together, the
\* initialisation is entered only while USE_PBO is clear, USE_PBO is never
\* cleared once it is set, and a failed initialisation clears TRY_PBO.
C33_PboInitOneShot ==
  /\ [](\A t, u \in FrameThreads :
          (pc[t] = "pbo_store" /\ pc[u] = "pbo_store") => t = u)
  /\ [][/\ \A t \in FrameThreads :
             (pc[t] # "pbo_store" /\ pc'[t] = "pbo_store")
               => "USE_PBO" \notin flags
        /\ "USE_PBO" \in flags => "USE_PBO" \in flags'
        /\ \A t \in FrameThreads :
             (pc[t] = "pbo_store" /\ pc'[t] # "pbo_store"
              /\ gl_capture_init_pbo # 0)
               => "TRY_PBO" \notin flags']_vars

\* C34: the PBO of a stream is destroyed or re-created, as the writing of a
\* VIDEO_FORMAT message does, only while no readback of the stream is in
\* flight: never while pbo_active = 1.
C34_NoFormatUpdateInFlight ==
  [][\A s \in 1..Len(video) :
       (s <= Len(video') /\ video'[s].pbo # video[s].pbo)
         => video[s].pbo_active = 0]_vars

\* what last is advanced by after the k-th captured frame of a stream
LastStep(k) ==
  gl.fps_period + IF k % gl.fps_rem_period = 0 THEN gl.fps_rem ELSE 0

\* C35: with IGNORE_TIME set and no PBO, every frame() call made while
\* capturing passes the schedule test and opens its packet blocking, every
\* returned call has published its frame, the first frame of a stream is
\* stamped fps_period and each later one fps_period after the one before,
\* plus fps_rem after every fps_rem_period-th captured frame, whatever the
\* clock is.
C35_IgnoreTimePacing ==
  /\ [](("IGNORE_TIME" \in flags /\ Len(video) = 1) =>
          LET times == FrameTimes(1)
          IN /\ pc[1] = "frame_write" => ~video[1].packet.try
             /\ Len(times) = video[1].num_captured_frames
             /\ pc[1] = "idle" => Len(times) = video[1].num_frames
             /\ Len(times) > 0 => times[1] = gl.fps_period
             /\ \A k \in 1..(Len(times) - 1) :
                  times[k + 1] = times[k] + LastStep(k))
  /\ [][("IGNORE_TIME" \in flags /\ pc[1] = "time" /\ pc'[1] # "time")
          => pc'[1] = "update"]_vars

\* four frames are published at a rate whose period is not a whole number
\* of nanoseconds, the clock having advanced in between
C35_Witness ==
  /\ "IGNORE_TIME" \in flags
  /\ "USE_PBO" \notin flags
  /\ gl.fps_rem > 0
  /\ gl.fps_rem_period > 1
  /\ clock > 4 * TICK_NS
  /\ pc[1] = "idle"
  /\ Len(FrameTimes(1)) = 4
  /\ video[1].num_frames = 4

\* the VIDEO_FORMAT messages of stream id among the first n messages
FormatsBefore(id, n) ==
  SelectSeq(SubSeq(ps.msgs, 1, n),
            LAMBDA m : m.type = "VIDEO_FORMAT" /\ m.id = id)

\* the bytes of a picture of the announced format
AnnouncedSize(f) ==
  LET r == f.width * (IF f.format = GLC_VIDEO_BGRA THEN 4 ELSE 3)
      row == IF "DWORD_ALIGNED" \in f.flags /\ r % 8 # 0
             THEN r + 8 - (r % 8) ELSE r
  IN row * f.height

\* the steps of a frame() call after gl_capture_update_video_stream
PastUpdate == {"color", "color_open", "pbo_start", "frame_open",
               "frame_write"}

\* C36: every VIDEO_FRAME message downstream comes after a VIDEO_FORMAT
\* message of its stream, and is sized for the last one before it; and a
\* frame() call that has updated its stream on a buffer that is not
\* cancelled has announced the window size it queried (as cw, ch) in the
\* last VIDEO_FORMAT message of the stream.
C36_FormatBeforeFrame ==
  /\ [](\A n \in 1..Len(ps.msgs) :
          ps.msgs[n].type = "VIDEO_FRAME" =>
            LET fs == FormatsBefore(ps.msgs[n].id, n)
            IN /\ fs # <<>>
               /\ ps.msgs[n].size = AnnouncedSize(fs[Len(fs)]))
  /\ [](\A t \in FrameThreads :
          (pc[t] \in PastUpdate /\ ~ps.cancelled) =>
            LET v == video[loc[t].video]
                fs == FormatsBefore(v.id, Len(ps.msgs))
            IN /\ fs # <<>>
               /\ fs[Len(fs)] = video_format_message(v)
               /\ <<v.w, v.h>> = <<v.cw, v.ch>>)
  /\ [][\A t \in FrameThreads :
          (pc[t] = "geometry" /\ pc'[t] # "geometry") =>
            LET s == loc[t].video
            IN <<video'[s].w, video'[s].h>> = xgeom[video[s].drawable]]_vars

\* both streams have published a frame of 4x2 pixels and, after their
\* windows were resized, a second format message and a frame of 3x5 pixels
C36_Witness ==
  /\ Len(video) = 2
  /\ \A id \in 1..2 :
       /\ Len(FormatsBefore(id, Len(ps.msgs))) = 2
       /\ \E n \in 1..Len(ps.msgs), k \in 1..Len(ps.msgs) :
            /\ n < k
            /\ ps.msgs[n].type = "VIDEO_FRAME" /\ ps.msgs[n].id = id
            /\ ps.msgs[k].type = "VIDEO_FRAME" /\ ps.msgs[k].id = id
            /\ ps.msgs[n].size # ps.msgs[k].size

\* C37: a frame() call that is about to start a readback into the PBO of
\* its stream, or to harvest one from it, USE_PBO being set, finds a PBO
\* allocated for the stream (pbo # 0), in whatever order PBO was requested
\* and frames were captured.
C37_PboAllocated ==
  \A t \in FrameThreads :
    (pc[t] \in {"pbo_start", "frame_write"} /\ "USE_PBO" \in flags)
      => video[loc[t].video].pbo # 0

\* C38: when a frame() call reads the pixels and publishes the VIDEO_FRAME
\* message, the last VIDEO_FORMAT message of the stream announces the pixel
\* format and the pack alignment that glReadPixels is called with and the
\* width and height it reads, and the picture it announces has the bytes
\* that glReadPixels writes and that the packet is sized for.
C38_AnnouncedMatchesRead ==
  [][\A t \in FrameThreads :
       PublishesFrame(t) =>
         LET v == video[loc[t].video]
             fs == FormatsBefore(v.id, Len(ps.msgs))
             f == fs[Len(fs)]
             read == Align(v.cw * gl.bpp, gl.pack_alignment) * v.ch
         IN /\ fs # <<>>
            /\ f.format = GLC_VIDEO_BGRA <=> gl.format = GL_BGRA
            /\ "DWORD_ALIGNED" \in f.flags <=> gl.pack_alignment = 8
            /\ <<f.width, f.height>> = <<v.cw, v.ch>>
            /\ AnnouncedSize(f) = read
            /\ ps'.msgs[Len(ps'.msgs)].size = read]_vars

=========================================================================
